---- MODULE Spec2Model ----
(***************************************************************************)
(* A model of translateLocally's document translation core:                *)
(*   - the Paragraph Chunker and the Segmenter (DocumentSplitter.cpp),     *)
(*   - the plain-text Reassembler (DocumentMerger.cpp),                    *)
(*   - the Refinement Queue (LLMInterface.cpp),                            *)
(*   - the translation worker (DocumentTranslationDialog.cpp).             *)
(*                                                                         *)
(* A QString is a sequence of characters.  The alphabet has a one-byte     *)
(* letter "a", a two-byte letter "E" (for U+00E9), the space " " and the   *)
(* line feed "NL".                                                         *)
(***************************************************************************)
EXTENDS Integers, Sequences, FiniteSets, TLC

VARIABLES
    \* ---- Paragraph Chunker, called directly --------------------------------
    text,               \* the text handed to splitTextByParagraphs
    maxSize,            \* its maxSize argument
    segments,           \* the list it returned
    cpc,                \* "call" before the call, "done" after it
    \* ---- DocumentProcessor on one input file --------------------------------
    m_input,            \* the input file: extension, content, archive, conversion
    m_segments,         \* DocumentProcessor::m_segments
    splitErrors,        \* the error signals splitDocument emitted
    outText,            \* the content of the output text file
    saveOk,             \* what save() returned
    dpc,                \* "open" before open(), then "split", then "saved"
    tempFiles,          \* what the PDF conversion left in the temporary location
    m_translatedSegments, \* DocumentProcessor::m_translatedSegments
    merged,             \* what the merge called by save() handed back
    \* ---- Refinement Queue (LLMInterface) -----------------------------------
    llmEnabled,         \* settings_->llmEnabled()
    llmProvider,        \* settings_->llmProvider()
    apiKeySet,          \* the provider's API key is not empty
    chunks_,            \* QList<Chunk> chunks_
    activeRequests_,    \* QMap<QNetworkReply*, int> activeRequests_
    completedCount_,    \* int completedCount_
    network,            \* the requests posted and neither finished nor aborted
    emitted,            \* the signals emitted by the last operation, in order
    received,           \* history: per chunk, whether a reply came and its text
    run,                \* history: number of runs started so far
    cancelled,          \* history: cancelVerification ran after the last run started
    lastOp,             \* history: the last operation
    verifyInput,        \* history: the texts of the verifyTranslation call of the run
    runStatus,          \* history: "started" once the run emitted verificationStarted,
                        \* "ended" once it emitted verificationReady or an error
    \* ---- DocumentTranslationWorker and its dialog --------------------------
    worker,             \* cancelled_, the locals of process() and where it waits
    dialog              \* how far onCancel got; whether the thread was told to quit

chunkerVars == <<text, maxSize, segments, cpc>>
queueVars == <<llmEnabled, llmProvider, apiKeySet, chunks_, activeRequests_,
               completedCount_, network, emitted, received, run, cancelled, lastOp,
               verifyInput, runStatus>>
docVars == <<m_input, m_segments, splitErrors, outText, saveOk, dpc,
             tempFiles, m_translatedSegments, merged>>
workerVars == <<worker, dialog>>
vars == <<chunkerVars, docVars, queueVars, workerVars>>

----------------------------------------------------------------------------
(* Bounds of the model *)

\* longest text handed to the Paragraph Chunker
MaxTextLen == 5
\* largest maxSize handed to the Paragraph Chunker
MaxBytes == 4
\* DocumentSplitter::MAX_SEGMENT_SIZE (8 * 1024 * 1024 in DocumentSplitter.h),
\* scaled down to the size of the texts of the model
MAX_SEGMENT_SIZE == 3
\* most entries in an archive
MaxEntries == 2
\* the character budget of a refinement chunk (3000 in LLMInterface.cpp),
\* scaled down to the size of the texts of the model
ChunkCharBudget == 2
\* most lines in a text handed to verifyTranslation
MaxLines == 3
\* most refinement runs started in one behaviour
MaxRuns == 2
\* most elements in a markup entry, most paragraphs in a word document
MaxElems == 2

----------------------------------------------------------------------------
(* QString *)

NL == "NL"
SP == " "
Chars == {"a", "E", NL}

\* all strings over alphabet A of length at most n
StringsUpTo(A, n) == UNION {[1..k -> A] : k \in 0..n}

\* QString::toUtf8().size()
RECURSIVE Utf8Size(_)
Utf8Size(s) ==
    IF s = <<>> THEN 0
    ELSE (IF Head(s) = "E" THEN 2 ELSE 1) + Utf8Size(Tail(s))

\* QString::split(sep, Qt::KeepEmptyParts): the empty string gives one empty part
RECURSIVE SplitAcc(_, _, _, _)
SplitAcc(s, sep, cur, acc) ==
    IF s = <<>> THEN Append(acc, cur)
    ELSE IF Head(s) = sep THEN SplitAcc(Tail(s), sep, <<>>, Append(acc, cur))
    ELSE SplitAcc(Tail(s), sep, Append(cur, Head(s)), acc)

Split(s, sep) == SplitAcc(s, sep, <<>>, <<>>)

\* the parts joined by sep (QTextStream output of mergeToTxt, QStringList::join)
RECURSIVE Join(_, _)
Join(parts, sep) ==
    IF parts = <<>> THEN <<>>
    ELSE IF Len(parts) = 1 THEN parts[1]
    ELSE parts[1] \o <<sep>> \o Join(Tail(parts), sep)

IsSpace(c) == c \in {SP, NL}

RECURSIVE TrimLeft(_)
TrimLeft(s) ==
    IF s # <<>> /\ IsSpace(Head(s)) THEN TrimLeft(Tail(s)) ELSE s

RECURSIVE TrimRight(_)
TrimRight(s) ==
    IF s # <<>> /\ IsSpace(s[Len(s)]) THEN TrimRight(SubSeq(s, 1, Len(s) - 1)) ELSE s

\* QString::trimmed()
Trimmed(s) == TrimRight(TrimLeft(s))

----------------------------------------------------------------------------
(* DocumentSplitter::Segment *)

\* An archive entry path is a stem and an extension; an identifier is a path with
\* an optional prefix and an optional numbered suffix.
Path(stem, ext) == [stem |-> stem, ext |-> ext]

\* QString("segment_%1").arg(n)
SegmentId(n) == [prefix |-> "", name |-> Path("segment", ""), sep |-> "_", num |-> n]

\* a default-constructed (empty) originalXhtml
NoMarkup == <<>>

Segment(t, id, idx, markup) ==
    [text |-> t, identifier |-> id, index |-> idx,
     originalSize |-> Utf8Size(t), originalXhtml |-> markup]

----------------------------------------------------------------------------
(* DocumentSplitter::splitTextByParagraphs *)

\* the loop over the paragraphs; segs holds segmentIndex = Len(segs) segments
RECURSIVE ChunkLoop(_, _, _, _)
ChunkLoop(paragraphs, currentChunk, segs, max) ==
    IF paragraphs = <<>>
    THEN \* "Don't forget the last chunk"
         IF currentChunk # <<>>
         THEN Append(segs, Segment(currentChunk, SegmentId(Len(segs)), Len(segs), NoMarkup))
         ELSE segs
    ELSE LET para == Head(paragraphs)
             potentialChunk == IF currentChunk = <<>> THEN para
                               ELSE currentChunk \o <<NL>> \o para
         IN IF Utf8Size(potentialChunk) > max /\ currentChunk # <<>>
            THEN ChunkLoop(Tail(paragraphs), para,
                           Append(segs, Segment(currentChunk, SegmentId(Len(segs)),
                                                Len(segs), NoMarkup)),
                           max)
            ELSE ChunkLoop(Tail(paragraphs), potentialChunk, segs, max)

\* an off-by-one in the size test (flushes only beyond max + 1)
splitTextByParagraphs_offByOne(t, max) == ChunkLoop(Split(t, NL), <<>>, <<>>, max + 1)

splitTextByParagraphs(t, max) == ChunkLoop(Split(t, NL), <<>>, <<>>, max)

\* the texts of a segment list, in list order
RECURSIVE TextsOf(_)
TextsOf(segs) ==
    IF segs = <<>> THEN <<>> ELSE <<Head(segs).text>> \o TextsOf(Tail(segs))

----------------------------------------------------------------------------
(* Archives and markup, as the Segmenter reads them *)

\* An archive is a sequence of entries [name, readOk, body]: archive_read_data
\* fails on an entry with readOk = FALSE.  The body of a markup entry is its
\* sequence of elements [tag, text], each holding one character-data node; the
\* body of a word document is its sequence of paragraphs, each a sequence of
\* text runs.
Entry(name, readOk, body) == [name |-> name, readOk |-> readOk, body |-> body]

WordDocumentXml == Path("word/document", ".xml")

\* name.endsWith(".xhtml") || name.endsWith(".html")
IsChapterName(name) == name.ext \in {".xhtml", ".html"}

\* the paragraph and heading end tags splitEpub looks for
ParagraphTags == {"p", "h1", "h2", "h3", "h4", "h5", "h6"}

\* QString("%1_part%2").arg(name).arg(i)
PartId(name, i) == [prefix |-> "", name |-> name, sep |-> "_part", num |-> i]

\* seg.identifier = name
ChapterId(name) == [prefix |-> "", name |-> name, sep |-> "", num |-> -1]

\* QString("pdf_converted_%1").arg(identifier)
PdfId(id) == [id EXCEPT !.prefix = "pdf_converted_"]

\* what a split operation hands back: the list it returns and the error signals
\* it emitted
Result(segs, errors) == [segs |-> segs, errors |-> errors]

----------------------------------------------------------------------------
(* DocumentSplitter::splitTxt *)

splitTxt(file, max) ==
    IF ~file.openOk
    THEN Result(<<>>, <<"Could not open text file">>)
    ELSE Result(splitTextByParagraphs(file.content, max), <<>>)

----------------------------------------------------------------------------
(* DocumentSplitter::splitDocx *)

\* the text of the runs (w:t) of one paragraph, concatenated
RECURSIVE ConcatAll(_)
ConcatAll(strs) ==
    IF strs = <<>> THEN <<>> ELSE Head(strs) \o ConcatAll(Tail(strs))

\* the XML loop: currentPara gathers run text and is flushed, with a line feed,
\* at the end of a paragraph when it is not empty
RECURSIVE DocxText(_, _, _)
DocxText(paragraphs, currentPara, fullText) ==
    IF paragraphs = <<>> THEN fullText
    ELSE LET cur == currentPara \o ConcatAll(Head(paragraphs))
         IN IF cur # <<>>
            THEN DocxText(Tail(paragraphs), <<>>, fullText \o cur \o <<NL>>)
            ELSE DocxText(Tail(paragraphs), cur, fullText)

\* the first entry named word/document.xml, 0 when there is none
RECURSIVE FindEntry(_, _, _)
FindEntry(archive, name, k) ==
    IF k > Len(archive) THEN 0
    ELSE IF archive[k].name = name THEN k
    ELSE FindEntry(archive, name, k + 1)

splitDocx(file, max) ==
    IF ~file.openOk
    THEN Result(<<>>, <<"Error opening DOCX">>)
    ELSE LET k == FindEntry(file.archive, WordDocumentXml, 1)
         IN IF k = 0
            THEN Result(<<>>, <<"Invalid DOCX: word/document.xml not found.">>)
            ELSE LET fullText == IF file.archive[k].readOk
                                 THEN DocxText(file.archive[k].body, <<>>, <<>>)
                                 ELSE <<>>   \* len < 0: break, fullText stays empty
                 IN Result(splitTextByParagraphs(fullText, max), <<>>)

----------------------------------------------------------------------------
(* DocumentSplitter::splitEpub *)

\* the inline markup a paragraph can hold: the start and the end tag of an
\* emphasis element, each one token of the text of the paragraph
InlineTags == {"<i>", "</i>"}

\* the character-data nodes the stream reader reports for the text of an
\* element: the stretches between its inline tags
RECURSIVE CharacterNodes(_, _)
CharacterNodes(s, node) ==
    IF s = <<>> THEN <<node>>
    ELSE IF Head(s) \in InlineTags THEN <<node>> \o CharacterNodes(Tail(s), <<>>)
    ELSE CharacterNodes(Tail(s), Append(node, Head(s)))

\* isCharacters(): a node that is not blank is appended, trimmed, with a space
RECURSIVE AppendNodes(_, _)
AppendNodes(nodes, currentPara) ==
    IF nodes = <<>> THEN currentPara
    ELSE LET t == Trimmed(Head(nodes))
         IN AppendNodes(Tail(nodes),
                        IF t # <<>> THEN currentPara \o t \o <<SP>> ELSE currentPara)

\* the character-data loop of one chapter: the extracted chapterText
RECURSIVE ChapterText(_, _, _)
ChapterText(elements, currentPara, chapterText) ==
    IF elements = <<>>
    THEN \* "Add any remaining text"
         IF Trimmed(currentPara) # <<>>
         THEN chapterText \o Trimmed(currentPara) \o <<NL>>
         ELSE chapterText
    ELSE LET e == Head(elements)
             cur == AppendNodes(CharacterNodes(e.text, <<>>), currentPara)
         IN IF e.tag \in ParagraphTags /\ Trimmed(cur) # <<>>
            THEN ChapterText(Tail(elements), <<>>, chapterText \o Trimmed(cur) \o <<NL>>)
            ELSE ChapterText(Tail(elements), cur, chapterText)

\* the index given to part i of a chapter split when segmentIndex segments exist
EpubPartIndex_chunkLocal(segmentIndex, i) == i

EpubPartIndex(segmentIndex, i) == segmentIndex + i

\* the markup stored in part i of a split chapter
PartMarkup_everyPart(i, originalXhtml) == originalXhtml

PartMarkup(i, originalXhtml) == IF i = 0 THEN originalXhtml ELSE NoMarkup

\* the parts of a chapter too large for one segment, renamed and renumbered
RECURSIVE EpubParts(_, _, _, _, _)
EpubParts(chapterSegments, i, name, originalXhtml, segmentIndex) ==
    IF i >= Len(chapterSegments) THEN <<>>
    ELSE <<[chapterSegments[i + 1] EXCEPT
                !.identifier = PartId(name, i),
                !.index = EpubPartIndex(segmentIndex, i),
                !.originalXhtml = PartMarkup(i, originalXhtml)]>>
         \o EpubParts(chapterSegments, i + 1, name, originalXhtml, segmentIndex)

\* the segments one chapter entry adds when segmentIndex segments exist
ChapterSegments(entry, segmentIndex, max) ==
    LET chapterText == ChapterText(entry.body, <<>>, <<>>)
    IN IF chapterText = <<>> THEN <<>>
       ELSE IF Utf8Size(chapterText) > max
       THEN EpubParts(splitTextByParagraphs(chapterText, max), 0, entry.name,
                      entry.body, segmentIndex)
       ELSE <<[text |-> Trimmed(chapterText), identifier |-> ChapterId(entry.name),
               index |-> segmentIndex, originalSize |-> Utf8Size(chapterText),
               originalXhtml |-> entry.body]>>

\* the second pass over the archive
RECURSIVE EpubLoop(_, _, _)
EpubLoop(archive, segs, max) ==
    IF archive = <<>> THEN segs
    ELSE LET entry == Head(archive)
         IN IF ~IsChapterName(entry.name) THEN EpubLoop(Tail(archive), segs, max)
            ELSE IF ~entry.readOk
            THEN \* len < 0: "warn and try to salvage other chapters"
                 EpubLoop(Tail(archive), segs, max)
            ELSE EpubLoop(Tail(archive),
                          segs \o ChapterSegments(entry, Len(segs), max), max)

splitEpub(file, max) ==
    IF ~file.openOk
    THEN Result(<<>>, <<"Error opening EPUB">>)
    ELSE IF \A k \in 1..Len(file.archive) : ~IsChapterName(file.archive[k].name)
    THEN Result(<<>>, <<"No chapters found in EPUB file.">>)
    ELSE IF ~file.reopenOk
    THEN Result(<<>>, <<"Error reading EPUB">>)
    ELSE Result(EpubLoop(file.archive, <<>>, max), <<>>)

----------------------------------------------------------------------------
(* DocumentSplitter::convertPdfToDocx, splitPdf, splitDocument *)

\* how the external conversion can end
ConvOutcomes == {"ok", "LibreOffice not found", "no temporary directory",
                 "Failed to start LibreOffice", "timed out", "conversion failed",
                 "no output file"}

RECURSIVE PdfRename(_)
PdfRename(segs) ==
    IF segs = <<>> THEN <<>>
    ELSE <<[Head(segs) EXCEPT !.identifier = PdfId(Head(segs).identifier)]>>
         \o PdfRename(Tail(segs))

\* what convertPdfToDocx leaves on disk when it returns: nothing before the
\* temporary directory exists; the directory, which is created and then set not
\* to remove itself, on every later return; and in it, after a conversion, the
\* word package
TempAfterConvert(conv) ==
    IF conv \in {"LibreOffice not found", "no temporary directory"} THEN {}
    ELSE IF conv = "ok" THEN {"directory", "docx"}
    ELSE {"directory"}

\* what splitPdf leaves on disk: it removes the word package and its directory
\* after splitDocx, and returns at once when the conversion gave no path
TempAfterSplitPdf(file) ==
    IF file.conv # "ok" THEN TempAfterConvert(file.conv) ELSE {}

splitPdf(file, max) ==
    IF file.conv # "ok"
    THEN Result(<<>>, <<file.conv>>)
    ELSE LET r == splitDocx(file, max)
         IN Result(PdfRename(r.segs), r.errors)

splitDocument(file, max) ==
    IF file.ext = "txt" THEN splitTxt(file, max)
    ELSE IF file.ext = "docx" THEN splitDocx(file, max)
    ELSE IF file.ext = "epub" THEN splitEpub(file, max)
    ELSE IF file.ext = "pdf" THEN splitPdf(file, max)
    ELSE Result(<<>>, <<"Unsupported file format">>)

----------------------------------------------------------------------------
(* DocumentMerger::mergeToTxt *)

\* std::sort by index: the segment of least index first
RECURSIVE SortByIndex(_)
SortByIndex(segs) ==
    IF segs = <<>> THEN <<>>
    ELSE LET k == CHOOSE i \in 1..Len(segs) :
                      \A j \in 1..Len(segs) :
                          segs[i].index < segs[j].index
                          \/ (segs[i].index = segs[j].index /\ i <= j)
             rest == [j \in 1..(Len(segs) - 1) |-> IF j < k THEN segs[j] ELSE segs[j + 1]]
         IN <<segs[k]>> \o SortByIndex(rest)

\* the text written to the output file: the sorted texts, a line feed between
\* two of them
mergeToTxt(translatedSegments) == Join(TextsOf(SortByIndex(translatedSegments)), NL)

----------------------------------------------------------------------------
(* DocumentMerger: what a merge hands back, and how it reads an entry *)

\* QString::split(sep, Qt::SkipEmptyParts)
SplitSkipEmpty(s, sep) == SelectSeq(Split(s, sep), LAMBDA part : part # <<>>)

\* QString::toHtmlEscaped(): each of < > & " becomes its entity, written here
\* as one markup token
HtmlEscaped(s) ==
    [i \in 1..Len(s) |->
        IF s[i] = "&" THEN "&amp;"
        ELSE IF s[i] = "<" THEN "&lt;"
        ELSE IF s[i] = ">" THEN "&gt;"
        ELSE IF s[i] = "\"" THEN "&quot;"
        ELSE s[i]]

\* the conditions a merge runs under: the output archive can be created or not;
\* what a buffer that archive_read_data did not fill happens to hold
MergeEnv(outOk, junk) == [outOk |-> outOk, junk |-> junk]

\* what a merge hands back: its return value, the archive it wrote, the error
\* signals it emitted
MergeResult(ok, archive, errors) == [ok |-> ok, archive |-> archive, errors |-> errors]

\* the buffer after "buffer.resize(size); archive_read_data(...)", whose return
\* value is not looked at: the data of the entry or, when the read fails, the
\* bytes the buffer was created with
ReadData(entry, env) ==
    IF entry.readOk THEN entry.body
    ELSE IF env.junk = "same" THEN entry.body
    ELSE <<>>

----------------------------------------------------------------------------
(* DocumentMerger::mergeToDocx, replaceTextInWordXml, rebuildDocxWithTranslation

   word/document.xml is its sequence of paragraphs (w:p), each the sequence of
   the character data of its text runs (w:t).                               *)

\* wtPattern "<w:t[^>]*>([^<]+)</w:t>" matches: a run that is not empty
HasText(para) == \E i \in 1..Len(para) : para[i] # <<>>

\* lines 110-124: the first run that is not empty receives the escaped
\* translated paragraph, every run after it is removed
ReplaceParaText(para, transPara) ==
    LET first == CHOOSE i \in 1..Len(para) :
                     para[i] # <<>> /\ \A j \in 1..(i - 1) : para[j] = <<>>
    IN SubSeq(para, 1, first - 1) \o <<HtmlEscaped(transPara)>>

\* the loop with a paragraph without text consuming a translated paragraph
RECURSIVE WordParaLoop_consumeAlways(_, _, _)
WordParaLoop_consumeAlways(paragraphs, translatedParas, transIndex) ==
    IF paragraphs = <<>> THEN <<>>
    ELSE IF ~HasText(Head(paragraphs))
    THEN <<Head(paragraphs)>>
         \o WordParaLoop_consumeAlways(Tail(paragraphs), translatedParas, transIndex + 1)
    ELSE IF transIndex >= Len(translatedParas) THEN paragraphs
    ELSE <<ReplaceParaText(Head(paragraphs), translatedParas[transIndex + 1])>>
         \o WordParaLoop_consumeAlways(Tail(paragraphs), translatedParas, transIndex + 1)

\* lines 93-133: the loop over the paragraphs, and the replacements
RECURSIVE WordParaLoop(_, _, _)
WordParaLoop(paragraphs, translatedParas, transIndex) ==
    IF paragraphs = <<>> THEN <<>>
    ELSE IF ~HasText(Head(paragraphs))
    THEN \* "Skip paragraphs without text"
         <<Head(paragraphs)>> \o WordParaLoop(Tail(paragraphs), translatedParas, transIndex)
    ELSE IF transIndex >= Len(translatedParas)
    THEN \* "No more translations"
         paragraphs
    ELSE <<ReplaceParaText(Head(paragraphs), translatedParas[transIndex + 1])>>
         \o WordParaLoop(Tail(paragraphs), translatedParas, transIndex + 1)

replaceTextInWordXml(originalXml, translatedText) ==
    IF Trimmed(translatedText) = <<>> THEN originalXml
    ELSE WordParaLoop(originalXml, SplitSkipEmpty(translatedText, NL), 0)

rebuildDocxWithTranslation(file, translatedText, env) ==
    IF ~file.openOk
    THEN MergeResult(FALSE, <<>>, <<"Could not open original DOCX">>)
    ELSE IF ~env.outOk
    THEN MergeResult(FALSE, <<>>, <<"Could not create output DOCX">>)
    ELSE MergeResult(TRUE,
             [k \in 1..Len(file.archive) |->
                 LET entry == file.archive[k]
                 IN IF entry.name = WordDocumentXml
                    THEN Entry(entry.name, TRUE,
                               replaceTextInWordXml(ReadData(entry, env), translatedText))
                    ELSE Entry(entry.name, TRUE, ReadData(entry, env))],
             <<>>)

\* fullTranslation: "seg.text + \n" for each segment
RECURSIVE FullTranslation(_)
FullTranslation(sorted) ==
    IF sorted = <<>> THEN <<>>
    ELSE Head(sorted).text \o <<NL>> \o FullTranslation(Tail(sorted))

mergeToDocx(file, translatedSegments, env) ==
    rebuildDocxWithTranslation(
        file, Trimmed(FullTranslation(SortByIndex(translatedSegments))), env)

----------------------------------------------------------------------------
(* DocumentMerger::mergeToEpub, replaceTextInXhtml, rebuildEpubWithTranslation

   A chapter is its sequence of elements [tag, text]; paraPattern matches the
   elements whose tag is p or h1 .. h6.                                     *)

\* lines 254-257: the paragraph with all its tags removed
StripTags(s) == SelectSeq(s, LAMBDA c : c \notin InlineTags)

\* lines 246-294: the loop over the paragraph and heading elements
RECURSIVE XhtmlParaLoop(_, _, _)
XhtmlParaLoop(elements, translatedParas, transIndex) ==
    IF elements = <<>> \/ transIndex >= Len(translatedParas) THEN elements
    ELSE LET e == Head(elements)
         IN IF e.tag \notin ParagraphTags \/ Trimmed(StripTags(e.text)) = <<>>
            THEN <<e>> \o XhtmlParaLoop(Tail(elements), translatedParas, transIndex)
            ELSE LET t == Trimmed(translatedParas[transIndex + 1])
                     transPara == IF t = <<>> THEN <<SP>> ELSE t
                 IN <<[e EXCEPT !.text = transPara]>>
                    \o XhtmlParaLoop(Tail(elements), translatedParas, transIndex + 1)

replaceTextInXhtml(originalXhtml, translatedText) ==
    IF Trimmed(translatedText) = <<>> THEN originalXhtml
    ELSE XhtmlParaLoop(originalXhtml, SplitSkipEmpty(translatedText, NL), 0)

\* lines 347-357: the texts of the parts of a chapter, a space after each
RECURSIVE CollectParts(_, _, _)
CollectParts(chapterTranslations, name, i) ==
    IF PartId(name, i) \in DOMAIN chapterTranslations
    THEN chapterTranslations[PartId(name, i)] \o <<SP>>
         \o CollectParts(chapterTranslations, name, i + 1)
    ELSE <<>>

\* lines 331-375: whether the entry is rewritten, and what is written for it
IsTranslatedChapter(chapterTranslations, name) ==
    \/ ChapterId(name) \in DOMAIN chapterTranslations
    \/ PartId(name, 0) \in DOMAIN chapterTranslations

NewXhtml(chapterTranslations, chapterOriginalXhtml, name) ==
    LET whole == ChapterId(name) \in DOMAIN chapterTranslations
        translated == IF whole THEN chapterTranslations[ChapterId(name)]
                      ELSE CollectParts(chapterTranslations, name, 0)
        originalXhtml == IF whole THEN chapterOriginalXhtml[ChapterId(name)]
                         ELSE chapterOriginalXhtml[PartId(name, 0)]
    IN IF originalXhtml # <<>>
       THEN replaceTextInXhtml(originalXhtml, translated)
       ELSE \* "Fallback if no original XHTML stored": a body of one paragraph
            <<[tag |-> "p", text |-> HtmlEscaped(translated)]>>

rebuildEpubWithTranslation(file, chapterTranslations, chapterOriginalXhtml, env) ==
    IF ~file.openOk
    THEN MergeResult(FALSE, <<>>, <<"Could not open original EPUB">>)
    ELSE IF ~env.outOk
    THEN MergeResult(FALSE, <<>>, <<"Could not create output EPUB">>)
    ELSE MergeResult(TRUE,
             [k \in 1..Len(file.archive) |->
                 LET entry == file.archive[k]
                 IN IF IsTranslatedChapter(chapterTranslations, entry.name)
                    THEN Entry(entry.name, TRUE,
                               NewXhtml(chapterTranslations, chapterOriginalXhtml,
                                        entry.name))
                    ELSE Entry(entry.name, TRUE, ReadData(entry, env))],
             <<>>)

\* lines 213-218: the map filled for i = 0, 1, ...; a later i overwrites
ByIdentifier(originalSegments, values, n) ==
    [id \in {originalSegments[i].identifier : i \in 1..n} |->
        LET last == CHOOSE i \in 1..n :
                        /\ originalSegments[i].identifier = id
                        /\ \A j \in (i + 1)..n : originalSegments[j].identifier # id
        IN values[last]]

mergeToEpub(file, originalSegments, translatedSegments, env) ==
    LET n == IF Len(translatedSegments) < Len(originalSegments)
             THEN Len(translatedSegments) ELSE Len(originalSegments)
    IN rebuildEpubWithTranslation(
           file,
           ByIdentifier(originalSegments, TextsOf(translatedSegments), n),
           ByIdentifier(originalSegments,
                        [i \in 1..Len(originalSegments) |->
                            originalSegments[i].originalXhtml], n),
           env)

----------------------------------------------------------------------------
(* The Paragraph Chunker called on every text and every maxSize *)

QueueIdle ==
    /\ llmEnabled = FALSE /\ llmProvider = "Ollama" /\ apiKeySet = FALSE
    /\ chunks_ = <<>> /\ activeRequests_ = <<>> /\ completedCount_ = 0
    /\ network = {} /\ emitted = <<>> /\ received = <<>>
    /\ run = 0 /\ cancelled = FALSE /\ lastOp = "none" /\ verifyInput = <<>>
    /\ runStatus = "none"

ChunkerIdle == text = <<>> /\ maxSize = 0 /\ segments = <<>> /\ cpc = "idle"

\* no translation worker exists
WorkerIdle == worker = [pc |-> "none"] /\ dialog = [cancel |-> "none", quit |-> FALSE]

NoFile == [ext |-> "", openOk |-> FALSE, reopenOk |-> FALSE, content |-> <<>>,
           archive |-> <<>>, conv |-> "ok"]

\* no merge has run
NoMerge == [ok |-> FALSE, archive |-> <<>>, errors |-> <<>>]

DocIdle ==
    /\ m_input = NoFile /\ m_segments = <<>> /\ splitErrors = <<>>
    /\ outText = <<>> /\ saveOk = FALSE /\ dpc = "idle"
    /\ tempFiles = {} /\ m_translatedSegments = <<>> /\ merged = NoMerge

InitChunker ==
    /\ text \in StringsUpTo(Chars, MaxTextLen)
    /\ maxSize \in 0..MaxBytes
    /\ segments = <<>>
    /\ cpc = "call"
    /\ DocIdle
    /\ QueueIdle
    /\ WorkerIdle

CallSplitTextByParagraphs ==
    /\ cpc = "call"
    /\ segments' = splitTextByParagraphs(text, maxSize)
    /\ cpc' = "done"
    /\ UNCHANGED <<text, maxSize, docVars, queueVars, workerVars>>

NextChunker == CallSplitTextByParagraphs

SpecChunker == InitChunker /\ [][NextChunker]_vars

RECURSIVE SelectOversize(_, _)
SelectOversize(strs, max) ==
    IF strs = <<>> THEN <<>>
    ELSE (IF Utf8Size(Head(strs)) > max THEN <<Head(strs)>> ELSE <<>>)
         \o SelectOversize(Tail(strs), max)

HasNL(s) == \E i \in 1..Len(s) : s[i] = NL

\* C4: joining the texts of the chunks returned by splitTextByParagraphs with a
\* line feed gives back the input text exactly, blank lines included.
C4_RoundTrip ==
    cpc = "done" => Join(TextsOf(segments), NL) = text

\* C5: every chunk is at most maxSize bytes long, except a chunk that is one
\* single paragraph longer than maxSize; and the oversize paragraphs of the input
\* are, in order, exactly the oversize chunks: each is emitted whole, alone.
C5_SizeBound ==
    cpc = "done" =>
        /\ \A i \in 1..Len(segments) :
              \/ Utf8Size(segments[i].text) <= maxSize
              \/ /\ ~HasNL(segments[i].text)
                 /\ \E k \in 1..Len(Split(text, NL)) : Split(text, NL)[k] = segments[i].text
        /\ SelectOversize(TextsOf(segments), maxSize) = SelectOversize(Split(text, NL), maxSize)

\* C5 witness: three chunks, the middle one an oversize paragraph between two
\* chunks that fit.
C5_Witness ==
    /\ cpc = "done"
    /\ Len(segments) = 3
    /\ Utf8Size(segments[1].text) <= maxSize
    /\ Utf8Size(segments[2].text) > maxSize
    /\ Utf8Size(segments[3].text) <= maxSize
    /\ maxSize > 0

----------------------------------------------------------------------------
(* The input files of the model *)

\* all sequences over S of length at most n
SeqsUpTo(S, n) == UNION {[1..k -> S] : k \in 0..n}

\* all sequences of distinct elements of S of length at most n
DistinctSeqs(S, n) ==
    {q \in SeqsUpTo(S, n) : \A i, j \in 1..Len(q) : i # j => q[i] # q[j]}

A1 == <<"a">>
A3 == <<"a", "a", "a">>

\* a short paragraph, a long paragraph, text outside any paragraph, a
\* heading holding white space only
Elements == {[tag |-> "p", text |-> A1], [tag |-> "p", text |-> A3],
             [tag |-> "div", text |-> A1], [tag |-> "h1", text |-> <<SP>>]}

\* a paragraph without a run, with one run, with two runs
WordParagraphs == {<<>>, <<A1>>, <<A1, A3>>, <<A3>>}

EpubNames == {Path("ch1", ".xhtml"), Path("ch2", ".html"), Path("META-INF/container", ".xml")}
DocxNames == {WordDocumentXml, Path("word/styles", ".xml")}

\* the entries an archive can hold under a name: a readable chapter or word
\* document with any body, an unreadable one, or an entry of another kind
EntriesNamed(name) ==
    IF IsChapterName(name)
    THEN {Entry(name, TRUE, b) : b \in SeqsUpTo(Elements, MaxElems)}
         \cup {Entry(name, FALSE, <<[tag |-> "p", text |-> A1]>>)}
    ELSE IF name = WordDocumentXml
    THEN {Entry(name, TRUE, b) : b \in SeqsUpTo(WordParagraphs, MaxElems)}
         \cup {Entry(name, FALSE, <<<<A1>>>>)}
    ELSE {Entry(name, TRUE, <<>>)}

\* the archives whose entry names are the sequence names
ArchivesNamed(names) ==
    {a \in [1..Len(names) -> UNION {EntriesNamed(names[k]) : k \in 1..Len(names)}] :
        \A k \in 1..Len(names) : a[k].name = names[k]}

\* the archives of at most n entries with names of nameSet
Archives(nameSet, n) ==
    UNION {ArchivesNamed(names) : names \in DistinctSeqs(nameSet, n)}

File(ext, openOk, reopenOk, content, archive, conv) ==
    [ext |-> ext, openOk |-> openOk, reopenOk |-> reopenOk, content |-> content,
     archive |-> archive, conv |-> conv]

\* the text files of at most len characters
TxtFiles(len) ==
    {File("txt", TRUE, TRUE, c, <<>>, "ok") : c \in StringsUpTo(Chars, len)}
    \cup {File("txt", FALSE, FALSE, <<>>, <<>>, "ok")}

\* the word packages, ebooks and portable documents of at most n entries
DocxFiles(n) ==
    {File("docx", TRUE, TRUE, <<>>, a, "ok") : a \in Archives(DocxNames, n)}
    \cup {File("docx", FALSE, FALSE, <<>>, <<>>, "ok")}

EpubFiles(n) ==
    {File("epub", TRUE, ok, <<>>, a, "ok") : ok \in BOOLEAN, a \in Archives(EpubNames, n)}
    \cup {File("epub", FALSE, FALSE, <<>>, <<>>, "ok")}

PdfFiles(n) ==
    {File("pdf", d.openOk, d.reopenOk, <<>>, d.archive, "ok") : d \in DocxFiles(n)}
    \cup {File("pdf", FALSE, FALSE, <<>>, <<>>, c) : c \in ConvOutcomes \ {"ok"}}

OtherFiles == {File("odt", TRUE, TRUE, <<>>, <<>>, "ok")}

Files(len, n) ==
    TxtFiles(len) \cup DocxFiles(n) \cup EpubFiles(n) \cup PdfFiles(n) \cup OtherFiles

----------------------------------------------------------------------------
(* DocumentProcessor: open() and, for a text file, save() of the segments as
   they are *)

InitDoc ==
    /\ m_input \in Files(MaxTextLen, MaxEntries)
    /\ m_segments = <<>> /\ splitErrors = <<>>
    /\ outText = <<>> /\ saveOk = FALSE
    /\ dpc = "open"
    /\ tempFiles = {} /\ m_translatedSegments = <<>> /\ merged = NoMerge
    /\ ChunkerIdle
    /\ QueueIdle
    /\ WorkerIdle

\* DocumentProcessor::open
Open ==
    /\ dpc = "open"
    /\ LET r == splitDocument(m_input, MAX_SEGMENT_SIZE)
       IN /\ m_segments' = r.segs
          /\ splitErrors' = r.errors
    /\ tempFiles' = IF m_input.ext = "pdf" THEN TempAfterSplitPdf(m_input) ELSE tempFiles
    /\ dpc' = "split"
    /\ UNCHANGED <<m_input, outText, saveOk, m_translatedSegments, merged,
                   chunkerVars, queueVars, workerVars>>

\* DocumentProcessor::save on a text file, the translated segments being the
\* segments themselves; the output file opens (outOk) or does not
SaveTxt ==
    /\ dpc = "split"
    /\ m_input.ext = "txt"
    /\ \E outOk \in BOOLEAN :
          /\ saveOk' = outOk
          /\ outText' = IF outOk THEN mergeToTxt(m_segments) ELSE outText
    /\ dpc' = "saved"
    /\ UNCHANGED <<m_input, m_segments, splitErrors, tempFiles, m_translatedSegments,
                   merged, chunkerVars, queueVars, workerVars>>

NextDoc == Open \/ SaveTxt

SpecDoc == InitDoc /\ [][NextDoc]_vars

\* C6: a text file that is split and saved with its segments untranslated is
\* written back exactly as it was read.
C6_TxtIdentity ==
    (dpc = "saved" /\ m_input.ext = "txt" /\ m_input.openOk /\ saveOk)
        => outText = m_input.content

\* C7: in the list splitDocument returns, for every format, the k-th segment
\* has index k, counting from 0.
C7_Indices ==
    dpc \in {"split", "saved"} =>
        \A k \in 1..Len(m_segments) : m_segments[k].index = k - 1

\* C7 witness: an ebook whose first chapter gives one segment and whose second
\* chapter gives two parts, the last of index 2.
C7_Witness ==
    /\ dpc = "split"
    /\ m_input.ext = "epub"
    /\ Len(m_segments) = 3
    /\ m_segments[1].identifier.sep = ""
    /\ m_segments[3].identifier.sep = "_part"
    /\ m_segments[3].index = 2

\* the entries splitDocument reads of an input file
EntriesRead(f) ==
    IF f.ext = "epub"
    THEN {k \in 1..Len(f.archive) : IsChapterName(f.archive[k].name)}
    ELSE {k \in 1..Len(f.archive) : k = FindEntry(f.archive, WordDocumentXml, 1)}

\* an unsupported extension, a file or archive that cannot be opened or read, a
\* failed conversion, or a missing internal entry
InputFailure(f) ==
    \/ f.ext \notin {"txt", "docx", "epub", "pdf"}
    \/ f.ext = "pdf" /\ f.conv # "ok"
    \/ ~f.openOk
    \/ f.ext = "epub" /\ ~f.reopenOk
    \/ f.ext \in {"docx", "epub", "pdf"} /\ EntriesRead(f) = {}
    \/ \E k \in EntriesRead(f) : ~f.archive[k].readOk

\* C8: when splitDocument meets an unsupported extension, an archive it cannot
\* open or read, or a missing internal entry, it emits an error and returns the
\* empty list.
C8_ErrorPolicy ==
    (dpc = "split" /\ InputFailure(m_input)) =>
        (splitErrors # <<>> /\ m_segments = <<>>)

\* the segments of the returned list that carry the entry path name
RECURSIVE SegmentsNamed(_, _)
SegmentsNamed(segs, name) ==
    IF segs = <<>> THEN <<>>
    ELSE (IF Head(segs).identifier.name = name THEN <<Head(segs)>> ELSE <<>>)
         \o SegmentsNamed(Tail(segs), name)

\* the chapters of an ebook that splitEpub read
ChaptersRead ==
    IF dpc = "split" /\ m_input.ext = "epub" /\ m_input.openOk /\ m_input.reopenOk
    THEN {k \in 1..Len(m_input.archive) :
             IsChapterName(m_input.archive[k].name) /\ m_input.archive[k].readOk}
    ELSE {}

\* the segments are name_part0, name_part1, ... in order and only _part0 carries
\* the markup
IsPartList(S, entry) ==
    /\ \A i \in 1..Len(S) : S[i].identifier = PartId(entry.name, i - 1)
    /\ \A i \in 1..Len(S) :
          S[i].originalXhtml = IF i = 1 THEN entry.body ELSE NoMarkup

\* the one segment is named by the chapter path and carries the markup
IsWholeChapter(S, entry) ==
    /\ Len(S) = 1
    /\ S[1].identifier = ChapterId(entry.name)
    /\ S[1].originalXhtml = entry.body

----------------------------------------------------------------------------
(* LLMInterface: chunks, requests, signals *)

\* LLMInterface::Chunk; refinedTranslation starts as the machine translation
Chunk(i, src, mt) ==
    [index |-> i, source |-> src, machineTranslation |-> mt,
     refinedTranslation |-> mt, completed |-> FALSE]

\* "int maxConcurrent = 1"
maxConcurrent == 1

\* the providers sendRequest knows, and those that need an API key
Providers == {"Ollama", "LM Studio", "OpenAI", "Claude", "Google Gemini"}
KeyedProviders == {"OpenAI", "Claude", "Google Gemini"}

\* The queue while an operation runs: chunks_, activeRequests_ (a map from reply
\* to chunk index), completedCount_, the requests outstanding in the network,
\* the signals emitted so far (out), and the history (received, run).
\* A signal records the run whose chunks it was built from and, as history, the
\* state of those chunks (basis).
Signal(type, q, txt, c, t) ==
    [type |-> type, run |-> q.run, text |-> txt, completed |-> c, total |-> t,
     basis |-> [i \in 1..Len(q.chunks) |->
                   [mt |-> q.chunks[i].machineTranslation,
                    done |-> q.received[i].done,
                    result |-> q.received[i].result]]]

Emit(q, type, txt, c, t) ==
    [q EXCEPT !.out = Append(@, Signal(type, q, txt, c, t)),
              !.status = IF type = "verificationStarted" THEN "started"
                         ELSE IF type \in {"verificationReady", "error"} THEN "ended"
                         ELSE @]

EmitError(q, msg) == Emit(q, "error", msg, 0, 0)

\* QMap insert and remove
MapInsert(m, k, v) == [x \in DOMAIN m \cup {k} |-> IF x = k THEN v ELSE m[x]]
MapRemove(m, k) == [x \in DOMAIN m \ {k} |-> m[x]]

\* a QNetworkReply handle not in use: the reply networkManager_->post returns
FreshReply(q) ==
    LET alive == DOMAIN q.active \cup {r.id : r \in q.net}
    IN CHOOSE id \in 1..(Cardinality(alive) + 1) :
           id \notin alive /\ \A j \in 1..(id - 1) : j \in alive

\* networkManager_->post(...); activeRequests_.insert(reply, index)
Post(q, index) ==
    LET reply == FreshReply(q)
    IN [q EXCEPT !.net = @ \cup {[id |-> reply, index |-> index, run |-> q.run]},
                 !.active = MapInsert(@, reply, index)]

----------------------------------------------------------------------------
(* LLMInterface::sendRequest with callOllama, callLMStudio, callOpenAI,
   callClaude, callGoogleGemini *)

sendRequest(q, index) ==
    IF llmProvider \in {"Ollama", "LM Studio"} THEN Post(q, index)
    ELSE IF llmProvider \in KeyedProviders
    THEN IF apiKeySet THEN Post(q, index)
         ELSE EmitError(q, "API key is not configured")
    ELSE q

----------------------------------------------------------------------------
(* LLMInterface::processQueue *)

RECURSIVE ProcessQueueLoop(_, _)
ProcessQueueLoop(q, i) ==
    IF i >= Len(q.chunks) THEN q
    ELSE IF q.chunks[i + 1].completed THEN ProcessQueueLoop(q, i + 1)
    ELSE LET isRunning == \E reply \in DOMAIN q.active : q.active[reply] = i
         IN IF isRunning THEN ProcessQueueLoop(q, i + 1)
            ELSE LET q2 == sendRequest(q, i)
                 IN IF Cardinality(DOMAIN q2.active) >= maxConcurrent THEN q2
                    ELSE ProcessQueueLoop(q2, i + 1)

processQueue_lastFirst(q) ==
    IF Cardinality(DOMAIN q.active) >= maxConcurrent THEN q
    ELSE ProcessQueueLoop(q, Len(q.chunks) - 1)

processQueue(q) ==
    IF Cardinality(DOMAIN q.active) >= maxConcurrent THEN q
    ELSE ProcessQueueLoop(q, 0)

----------------------------------------------------------------------------
(* LLMInterface::handleReply *)

\* How a request ends.  kind is "ok" (no error, a JSON object; result is the text
\* taken from it for the provider, <think> blocks removed, empty when the field
\* is missing), "badjson" (no error, no JSON object), "apiError" (Gemini: no
\* error, the object holds "error"), "emptyCandidates" (Gemini: no candidate),
\* "networkError" (any error but the cancelled one) or "canceled"
\* (OperationCanceledError: abort(), or the transfer timeout).
Outcome(kind, result) == [kind |-> kind, result |-> result]

\* what one chunk adds to currentFullText
ChunkContribution_completedOnly(chunk) ==
    IF chunk.completed THEN chunk.refinedTranslation \o <<NL, NL>> ELSE <<>>

ChunkContribution(chunk) == chunk.refinedTranslation \o <<NL, NL>>

\* currentFullText: "for (const auto& chunk : chunks_)"
RECURSIVE FullText(_)
FullText(chunks) ==
    IF chunks = <<>> THEN <<>>
    ELSE ChunkContribution(Head(chunks)) \o FullText(Tail(chunks))

\* handleReply with a transport error treated as the Gemini error payload is:
\* the run stops
handleReply_abortOnFailure(q, reply, outcome) ==
    IF reply \notin DOMAIN q.active THEN q
    ELSE
    LET index == q.active[reply]
        q1 == [q EXCEPT !.active = MapRemove(@, reply)]
    IN
    IF outcome.kind = "apiError"
    THEN [EmitError(q1, "Gemini API error") EXCEPT !.active = <<>>]
    ELSE IF outcome.kind = "networkError"
    THEN [EmitError(q1, "Network error") EXCEPT !.active = <<>>]
    ELSE
    LET q2 == IF outcome.kind = "emptyCandidates"
              THEN EmitError(q1, "Gemini returned empty response")
              ELSE q1
        result == IF outcome.kind = "ok" /\ llmProvider \in Providers
                  THEN outcome.result ELSE <<>>
        q3 == [q2 EXCEPT
                 !.chunks[index + 1].refinedTranslation =
                     IF result # <<>> THEN Trimmed(result) ELSE @,
                 !.chunks[index + 1].completed = TRUE,
                 !.count = @ + 1,
                 !.received[index + 1] = [done |-> TRUE, result |-> result]]
        currentFullText == FullText(q3.chunks)
        q4 == Emit(q3, "partialResultReady", Trimmed(currentFullText), 0, 0)
        q5 == Emit(q4, "verificationProgress", <<>>, q4.count, Len(q4.chunks))
    IN IF q5.count = Len(q5.chunks)
       THEN Emit(q5, "verificationReady", Trimmed(currentFullText), 0, 0)
       ELSE processQueue(q5)

handleReply(q, reply, outcome) ==
    IF reply \notin DOMAIN q.active THEN q
    ELSE
    LET index == q.active[reply]
        q1 == [q EXCEPT !.active = MapRemove(@, reply)]
    IN
    IF outcome.kind = "apiError"
    THEN \* "Stop further processing - clear pending requests"
         [EmitError(q1, "Gemini API error") EXCEPT !.active = <<>>]
    ELSE
    LET q2 == IF outcome.kind = "emptyCandidates"
              THEN EmitError(q1, "Gemini returned empty response")
              ELSE IF outcome.kind = "networkError"
              THEN EmitError(q1, "Network error")
              ELSE q1
        result == IF outcome.kind = "ok" /\ llmProvider \in Providers
                  THEN outcome.result ELSE <<>>
        q3 == [q2 EXCEPT
                 !.chunks[index + 1].refinedTranslation =
                     IF result # <<>> THEN Trimmed(result) ELSE @,
                 !.chunks[index + 1].completed = TRUE,
                 !.count = @ + 1,
                 !.received[index + 1] = [done |-> TRUE, result |-> result]]
        currentFullText == FullText(q3.chunks)
        q4 == Emit(q3, "partialResultReady", Trimmed(currentFullText), 0, 0)
        q5 == Emit(q4, "verificationProgress", <<>>, q4.count, Len(q4.chunks))
    IN IF q5.count = Len(q5.chunks)
       THEN Emit(q5, "verificationReady", Trimmed(currentFullText), 0, 0)
       ELSE processQueue(q5)

----------------------------------------------------------------------------
(* LLMInterface::verifyTranslation *)

Max(a, b) == IF a >= b THEN a ELSE b

\* the chunking loop running over the lines of the source only
RECURSIVE Rechunk_sourceLinesOnly(_, _, _, _, _, _)
Rechunk_sourceLinesOnly(sourceLines, transLines, i, currentSource, currentTrans, chunks) ==
    LET maxLines == Len(sourceLines)
    IN IF i >= maxLines THEN chunks
       ELSE LET cs == currentSource \o sourceLines[i + 1] \o <<NL>>
                ct == IF i < Len(transLines)
                      THEN currentTrans \o transLines[i + 1] \o <<NL>>
                      ELSE currentTrans
            IN IF Len(cs) > ChunkCharBudget \/ i = maxLines - 1
               THEN Rechunk_sourceLinesOnly(
                        sourceLines, transLines, i + 1, <<>>, <<>>,
                        Append(chunks, Chunk(Len(chunks), Trimmed(cs), Trimmed(ct))))
               ELSE Rechunk_sourceLinesOnly(sourceLines, transLines, i + 1, cs, ct, chunks)

\* the chunking loop over the line index i
RECURSIVE Rechunk(_, _, _, _, _, _)
Rechunk(sourceLines, transLines, i, currentSource, currentTrans, chunks) ==
    LET maxLines == Max(Len(sourceLines), Len(transLines))
    IN IF i >= maxLines THEN chunks
       ELSE LET cs == IF i < Len(sourceLines)
                      THEN currentSource \o sourceLines[i + 1] \o <<NL>>
                      ELSE currentSource
                ct == IF i < Len(transLines)
                      THEN currentTrans \o transLines[i + 1] \o <<NL>>
                      ELSE currentTrans
            IN IF Len(cs) > ChunkCharBudget \/ i = maxLines - 1
               THEN Rechunk(sourceLines, transLines, i + 1, <<>>, <<>>,
                            Append(chunks, Chunk(Len(chunks), Trimmed(cs), Trimmed(ct))))
               ELSE Rechunk(sourceLines, transLines, i + 1, cs, ct, chunks)

\* the keys of a map in ascending order (QMap::keys)
RECURSIVE SortedKeys(_)
SortedKeys(keys) ==
    IF keys = {} THEN <<>>
    ELSE LET k == CHOOSE x \in keys : \A y \in keys : x <= y
         IN <<k>> \o SortedKeys(keys \ {k})

\* the abort loop with a reply that reports its abort as a plain error
RECURSIVE AbortActive_asFailure(_, _)
AbortActive_asFailure(q, replies) ==
    IF replies = <<>> THEN q
    ELSE LET reply == Head(replies)
             pending == \E r \in q.net : r.id = reply
             q1 == [q EXCEPT !.net = {r \in @ : r.id # reply}]
         IN AbortActive_asFailure(
                IF pending THEN handleReply(q1, reply, Outcome("networkError", <<>>))
                ELSE q,
                Tail(replies))

\* "Abort active requests": reply->abort() ends the request and emits finished()
\* at once, on this thread, so handleReply(reply) runs inside the loop with the
\* cancelled error while the reply is still in activeRequests_
RECURSIVE AbortActive(_, _)
AbortActive(q, replies) ==
    IF replies = <<>> THEN q
    ELSE LET reply == Head(replies)
             pending == \E r \in q.net : r.id = reply
             q1 == [q EXCEPT !.net = {r \in @ : r.id # reply}]
         IN AbortActive(IF pending THEN handleReply(q1, reply, Outcome("canceled", <<>>))
                        ELSE q,
                        Tail(replies))

verifyTranslation(q, sourceText, translatedText) ==
    IF ~llmEnabled \/ Trimmed(sourceText) = <<>> THEN q
    ELSE
    LET q1 == AbortActive(q, SortedKeys(DOMAIN q.active))
        q2 == [q1 EXCEPT !.active = <<>>, !.chunks = <<>>, !.count = 0,
                         !.received = <<>>, !.run = @ + 1,
                         !.input = <<sourceText, translatedText>>,
                         !.status = "none"]
        chunks == Rechunk(Split(sourceText, NL), Split(translatedText, NL),
                          0, <<>>, <<>>, <<>>)
        q3 == [q2 EXCEPT !.chunks = chunks,
                         !.received = [i \in 1..Len(chunks) |->
                                          [done |-> FALSE, result |-> <<>>]]]
    IN IF chunks = <<>> THEN q3
       ELSE processQueue(
                Emit(Emit(q3, "verificationStarted", <<>>, 0, 0),
                     "verificationProgress", <<>>, 0, Len(chunks)))

----------------------------------------------------------------------------
(* LLMInterface::cancelVerification *)

\* the cancellation with each reply aborted while it is still connected and
\* still in the map
cancelVerification_abortConnected(q) ==
    LET q1 == AbortActive(q, SortedKeys(DOMAIN q.active))
    IN [q1 EXCEPT !.active = <<>>, !.chunks = <<>>, !.count = 0, !.received = <<>>]

\* the map is cleared first; each reply is disconnected, then aborted, so its
\* finished() reaches nobody
cancelVerification(q) ==
    [q EXCEPT !.active = <<>>,
              !.net = {r \in @ : r.id \notin DOMAIN q.active},
              !.chunks = <<>>,
              !.count = 0,
              !.received = <<>>]

----------------------------------------------------------------------------
(* The Refinement Queue under verifyTranslation calls, replies and cancels *)

\* k lines, each the string line
Lines(line, k) == Join([i \in 1..k |-> line], NL)

\* the pairs of texts handed to verifyTranslation: k source lines, each over
\* the budget, with as many lines of translation; a translation one line longer
\* and one line shorter than its source; two short source lines; a source of
\* white space only
VerifyInputs ==
    {<<Lines(A3, k), Lines(<<"b">>, k)>> : k \in 1..MaxLines}
    \cup {<<Lines(A3, 1), Lines(<<"b">>, 2)>>, <<Lines(A3, 2), Lines(<<"b">>, 1)>>,
          <<Lines(A1, 2), Lines(<<"b">>, 2)>>, <<<<SP>>, <<"b">>>>}

\* the provider settings of the model: a local provider, a provider that needs
\* an API key, the provider with its own error handling, an unknown name
ProviderSettings == {"Ollama", "OpenAI", "Google Gemini", "Other"}

\* the texts a provider answers with: a text wrapped in white space, nothing
ReplyTexts == {<<SP, "r", NL>>, <<>>}

Outcomes ==
    {Outcome("ok", t) : t \in ReplyTexts}
    \cup {Outcome(k, <<>>) : k \in {"badjson", "networkError", "canceled"}}
    \cup (IF llmProvider = "Google Gemini"
          THEN {Outcome(k, <<>>) : k \in {"apiError", "emptyCandidates"}}
          ELSE {})

\* the queue as the operations read it
Queue ==
    [chunks |-> chunks_, active |-> activeRequests_, count |-> completedCount_,
     net |-> network, out |-> <<>>, received |-> received, run |-> run,
     input |-> verifyInput, status |-> runStatus]

\* the queue as an operation leaves it
Becomes(q) ==
    /\ chunks_' = q.chunks
    /\ activeRequests_' = q.active
    /\ completedCount_' = q.count
    /\ network' = q.net
    /\ emitted' = q.out
    /\ received' = q.received
    /\ run' = q.run
    /\ verifyInput' = q.input
    /\ runStatus' = q.status

Init ==
    /\ llmEnabled \in BOOLEAN
    /\ llmProvider \in ProviderSettings
    /\ apiKeySet \in (IF llmProvider \in KeyedProviders THEN BOOLEAN ELSE {FALSE})
    /\ chunks_ = <<>> /\ activeRequests_ = <<>> /\ completedCount_ = 0
    /\ network = {} /\ emitted = <<>> /\ received = <<>>
    /\ run = 0 /\ cancelled = FALSE /\ lastOp = "none" /\ verifyInput = <<>>
    /\ runStatus = "none"
    /\ ChunkerIdle
    /\ DocIdle
    /\ WorkerIdle

VerifyTranslation ==
    /\ run < MaxRuns
    /\ \E input \in VerifyInputs :
          LET q == verifyTranslation(Queue, input[1], input[2])
          IN /\ Becomes(q)
             /\ cancelled' = IF q.run # run THEN FALSE ELSE cancelled
    /\ lastOp' = "verifyTranslation"
    /\ UNCHANGED <<llmEnabled, llmProvider, apiKeySet, chunkerVars, docVars, workerVars>>

\* a request outstanding in the network ends and its finished() signal is
\* delivered to handleReply
ReplyFinished ==
    /\ \E r \in network, outcome \in Outcomes :
          Becomes(handleReply([Queue EXCEPT !.net = @ \ {r}], r.id, outcome))
    /\ lastOp' = "handleReply"
    /\ UNCHANGED <<llmEnabled, llmProvider, apiKeySet, cancelled, chunkerVars, docVars, workerVars>>

CancelVerification ==
    /\ Becomes(cancelVerification(Queue))
    /\ cancelled' = TRUE
    /\ lastOp' = "cancelVerification"
    /\ UNCHANGED <<llmEnabled, llmProvider, apiKeySet, chunkerVars, docVars, workerVars>>

Next == VerifyTranslation \/ ReplyFinished \/ CancelVerification

Spec == Init /\ [][Next]_vars

\* C1: at most one refinement request that was posted and has neither
\* finished nor been aborted exists at any instant.
C1_OneInFlight == Cardinality(network) <= maxConcurrent

RunSignals == {"verificationReady", "partialResultReady", "verificationProgress", "error"}

\* C2: once cancelVerification has run, and until the next run starts, no
\* verificationReady, partialResultReady, verificationProgress or error signal
\* is emitted and no request is outstanding.
C2_AfterCancel ==
    cancelled =>
        /\ \A i \in 1..Len(emitted) : emitted[i].type \notin RunSignals
        /\ network = {}

\* C3: only one run is ever live: every outstanding request was dispatched for
\* a chunk of the current run, and every partialResultReady,
\* verificationProgress and verificationReady signal is built from the chunks of
\* the current run.
C3_OneLiveRun ==
    /\ \A r \in network : r.run = run
    /\ \A i \in 1..Len(emitted) :
          emitted[i].type \in {"partialResultReady", "verificationProgress",
                               "verificationReady"}
              => emitted[i].run = run

\* the text one chunk stands for in a partial result: its refined text once a
\* reply with a text came, its machine translation otherwise
ExpectedChunkText(b) ==
    IF b.done /\ b.result # <<>> THEN Trimmed(b.result) ELSE b.mt

RECURSIVE ExpectedFullText(_)
ExpectedFullText(basis) ==
    IF basis = <<>> THEN <<>>
    ELSE ExpectedChunkText(Head(basis)) \o <<NL, NL>> \o ExpectedFullText(Tail(basis))

CompletedIn(basis) == Cardinality({i \in 1..Len(basis) : basis[i].done})

\* C10: every partial result emitted is the texts of all chunks of the run in
\* index order (a blank line after each, the whole trimmed): the refined text of
\* a chunk whose reply brought a text, the machine translation of a chunk not
\* yet completed (or completed without a text); and the progress signal that
\* follows it carries (number of completed chunks, number of chunks).
C10_PartialResult ==
    \A i \in 1..Len(emitted) :
        emitted[i].type = "partialResultReady" =>
            /\ emitted[i].text = Trimmed(ExpectedFullText(emitted[i].basis))
            /\ i < Len(emitted)
            /\ emitted[i + 1].type = "verificationProgress"
            /\ emitted[i + 1].completed = CompletedIn(emitted[i].basis)
            /\ emitted[i + 1].total = Len(emitted[i].basis)

\* C10 witness: a partial result of a run of three chunks, the first refined, the
\* second completed without a text, the third not yet completed.
C10_Witness ==
    \E i \in 1..Len(emitted) :
        /\ emitted[i].type = "partialResultReady"
        /\ Len(emitted[i].basis) = 3
        /\ emitted[i].basis[1].done /\ emitted[i].basis[1].result # <<>>
        /\ emitted[i].basis[2].done /\ emitted[i].basis[2].result = <<>>
        /\ ~emitted[i].basis[3].done
        /\ emitted[i].text = <<"r", NL, NL, "b", NL, NL, "b">>

----------------------------------------------------------------------------
(* The order of dispatch, the end of a run, and errors *)

\* the requests of the live run outstanding after a step, the signals of one
\* type the step emitted for the live run, and whether the step completed the
\* last chunk of the live run
LiveRequests == {r \in network : r.run = run}

LiveSignals(type) ==
    {i \in 1..Len(emitted) : emitted[i].type = type /\ emitted[i].run = run}

ErrorSignals(texts) ==
    {i \in 1..Len(emitted) : emitted[i].type = "error" /\ emitted[i].text \in texts}

\* C11: in a run of n chunks the request outstanding is always that of the
\* lowest chunk not yet completed, all chunks below it being completed and none
\* above it (one at a time, in ascending order); verificationReady is emitted
\* for the run once, by the step that completes its n-th chunk, and by no other
\* step; and once all chunks are completed no request of the run is outstanding.
C11_SequentialRun ==
    [][ /\ Cardinality(LiveRequests') <= 1
        /\ \A r \in LiveRequests' :
              /\ r.index = completedCount_'
              /\ \A j \in 1..Len(chunks_') : chunks_'[j].completed <=> j <= r.index
        /\ Cardinality(LiveSignals("verificationReady")') =
              IF /\ run' = run
                 /\ completedCount_' = completedCount_ + 1
                 /\ completedCount_' = Len(chunks_')
              THEN 1 ELSE 0
        /\ (chunks_' # <<>> /\ completedCount_' = Len(chunks_')) => LiveRequests' = {}
      ]_vars

\* C11 witness: the third and last chunk of a run has just completed and the
\* final result was emitted.
C11_Witness ==
    /\ lastOp = "handleReply"
    /\ Len(chunks_) = 3 /\ completedCount_ = 3
    /\ LiveSignals("verificationReady") # {}
    /\ network = {}

HardErrors ==
    {"API key is not configured", "Gemini API error", "Gemini returned empty response"}

\* C12: a step that surfaces a hard API error (missing key, error payload,
\* empty candidates with the quota message) surfaces exactly one error, emits
\* no verificationReady and leaves no request of the run outstanding.
C12_HardErrorAborts ==
    ErrorSignals(HardErrors) # {} =>
        /\ Cardinality(ErrorSignals(HardErrors)) = 1
        /\ LiveSignals("verificationReady") = {}
        /\ LiveRequests = {}

\* the lowest chunk not yet completed (as an index from 0)
NextPending(chunks) ==
    CHOOSE j \in 0..(Len(chunks) - 1) :
        /\ ~chunks[j + 1].completed
        /\ \A k \in 0..(j - 1) : chunks[k + 1].completed

C14_NoErrorOnAbort ==
    /\ lastOp = "cancelVerification" =>
          \A i \in 1..Len(emitted) : emitted[i].type # "error"
    /\ lastOp = "verifyTranslation" =>
          \A i \in 1..Len(emitted) :
              emitted[i].type = "error" =>
                  /\ emitted[i].text = "API key is not configured"
                  /\ emitted[i].run = run

\* C14 witness: a verifyTranslation call has just aborted the request of the
\* previous run (the signals of that run show that its handler ran).
C14_Witness ==
    /\ lastOp = "verifyTranslation"
    /\ \E i \in 1..Len(emitted) : emitted[i].run # run
    /\ \A i \in 1..Len(emitted) : emitted[i].type # "error"

----------------------------------------------------------------------------
(* DocumentTranslationWorker: process() and cancel()

   process() runs on the worker thread and blocks in two nested event loops:
   loop.exec() while the translator works ("primary") and aiLoop.exec() while
   the refinement run of the segment is under way ("refine").  One step of the
   model is one event delivered to the worker thread together with the code of
   process() that runs until it blocks again.  The state of a step is the pair
   of the worker w and the queue q of its llm_.                            *)

\* most segments in a document
MaxSegs == 2

\* what happens around the worker during a step: the thread was told to quit
\* (exec() then returns at once), and what processor.save() will return
Env(quit, saveResult) == [quit |-> quit, saveResult |-> saveResult]

WorkerState(w, q) == [w |-> w, q |-> q]

NotHandling == [reply |-> 0, index |-> -1, outcome |-> Outcome("none", <<>>)]

\* lines 43-45 after a successful open() with segments
StartLoop(segs) ==
    [pc |-> "loop", segments |-> segs, i |-> 0, translatedText |-> <<>>,
     transSeg |-> <<>>, translatedSegments |-> <<>>, cancelled_ |-> FALSE,
     observed |-> FALSE, saved |-> FALSE, finished |-> "none",
     \* history: the run started for the segment at hand (-1: none), the runs
     \* whose error the lambda of the segment heard, and both for each
     \* stored segment, with its primary translation
     segRun |-> -1, heard |-> {}, log |-> <<>>,
     \* history: the positions of the segments for which the translator
     \* reported an error
     failed |-> {},
     \* the reply handleReply is working on between taking its index from
     \* activeRequests_ and using it on chunks_ (reply 0: none)
     handling |-> NotHandling]

\* emit finished(success, ...) and return
Finish(w, success) == [w EXCEPT !.pc = "finished", !.finished = success]

\* lines 127-138 with a check that never sees the flag
AfterLoop_ignoreCancel(st, env) ==
    WorkerState([Finish(st.w, env.saveResult) EXCEPT !.saved = TRUE], st.q)

\* lines 127-138: the check of cancelled_ after the loop, then save()
AfterLoop(st, env) ==
    IF st.w.cancelled_
    THEN WorkerState([Finish(st.w, FALSE) EXCEPT !.observed = TRUE], st.q)
    ELSE WorkerState([Finish(st.w, env.saveResult) EXCEPT !.saved = TRUE], st.q)

\* the lambdas of lines 100-114 applied to the signals of llm_, in order:
\* verificationReady stores a non-empty suggestion; it and error quit aiLoop
RECURSIVE ApplySignals(_, _)
ApplySignals(w, signals) ==
    IF signals = <<>> THEN [w |-> w, quit |-> FALSE]
    ELSE LET sig == Head(signals)
             w1 == IF sig.type = "verificationReady"
                   THEN (IF sig.text # <<>> THEN [w EXCEPT !.transSeg.text = sig.text]
                         ELSE w)
                   ELSE IF sig.type = "error"
                   THEN [w EXCEPT !.heard = @ \cup {sig.run}]
                   ELSE w
             rest == ApplySignals(w1, Tail(signals))
         IN [w |-> rest.w,
             quit |-> rest.quit \/ sig.type \in {"verificationReady", "error"}]

RECURSIVE IterationStart(_, _)
RECURSIVE AfterPrimary(_, _)

\* lines 119-124, then ++i
AfterRefine(st, env) ==
    IterationStart(
        WorkerState([st.w EXCEPT !.translatedSegments = Append(@, st.w.transSeg),
                                 !.i = @ + 1,
                                 !.log = Append(@, [run |-> st.w.segRun,
                                                    errors |-> st.w.heard,
                                                    primary |-> st.w.translatedText])],
                    st.q),
        env)

\* lines 47-73: the loop condition, then translate() and loop.exec()
IterationStart(st, env) ==
    IF st.w.i < Len(st.w.segments) /\ ~st.w.cancelled_
    THEN LET w1 == [st.w EXCEPT !.translatedText = <<>>, !.pc = "primary"]
         IN IF env.quit THEN AfterPrimary(WorkerState(w1, st.q), env)
            ELSE WorkerState(w1, st.q)
    ELSE (IF st.w.i < Len(st.w.segments)
          THEN AfterLoop(WorkerState([st.w EXCEPT !.observed = TRUE], st.q), env)
          ELSE AfterLoop(st, env))

\* lines 116-117: verifyTranslation has turned the queue q0 into q1; then
\* aiLoop.exec()
AfterVerify(w1, q0, q1, env) ==
    LET \* the signals emitted inside the call reach the lambdas;
        \* a quit() before aiLoop.exec() has no effect
        during == SubSeq(q1.out, Len(q0.out) + 1, Len(q1.out))
        w2 == ApplySignals([w1 EXCEPT !.segRun = q1.run], during).w
    IN IF env.quit THEN AfterRefine(WorkerState(w2, q1), env)
       ELSE WorkerState([w2 EXCEPT !.pc = "refine"], q1)

\* lines 75-125: after loop.exec() returned
AfterPrimary(st, env) ==
    IF st.w.cancelled_
    THEN AfterLoop(WorkerState([st.w EXCEPT !.observed = TRUE], st.q), env)
    ELSE
    LET seg == st.w.segments[st.w.i + 1]
        w1 == [st.w EXCEPT !.transSeg = [seg EXCEPT !.text = st.w.translatedText],
                           !.segRun = -1, !.heard = {}]
    IN IF llmEnabled /\ st.w.translatedText # <<>>
       THEN AfterVerify(w1, st.q, verifyTranslation(st.q, seg.text, st.w.translatedText),
                        env)
       ELSE AfterRefine(WorkerState(w1, st.q), env)

\* what a step leaves
WorkerBecomes(st) ==
    /\ worker' = st.w
    /\ Becomes(st.q)

----------------------------------------------------------------------------
(* The worker under translator results, replies, cancel and thread quit *)

\* the segments of the document: texts of one and of two refinement chunks
SegmentTexts == {Lines(A3, 1), Lines(A3, 2)}

Documents ==
    UNION {{[k \in 1..n |-> Segment(t[k], SegmentId(k - 1), k - 1, NoMarkup)] :
                t \in [1..n -> SegmentTexts]} : n \in 0..MaxSegs}

\* what the translator returns for a text: as many lines, or nothing
Translations(t) == {Lines(<<"b">>, Len(Split(t, NL))), <<>>}

\* the signal of the translator that ends loop.exec(): translationReady
\* with a translation, or error
TranslatorSignals(t) ==
    {[type |-> "translationReady", text |-> x] : x \in Translations(t)}
    \cup {[type |-> "error", text |-> <<>>]}

InitWorker ==
    /\ llmEnabled \in BOOLEAN
    /\ llmProvider \in ProviderSettings
    /\ apiKeySet \in (IF llmProvider \in KeyedProviders THEN BOOLEAN ELSE {FALSE})
    /\ chunks_ = <<>> /\ activeRequests_ = <<>> /\ completedCount_ = 0
    /\ network = {} /\ emitted = <<>> /\ received = <<>>
    /\ run = 0 /\ cancelled = FALSE /\ lastOp = "none" /\ verifyInput = <<>>
    /\ runStatus = "none"
    /\ worker \in {[pc |-> "start", segments |-> d] : d \in Documents}
    /\ dialog = [cancel |-> "none", quit |-> FALSE]
    /\ ChunkerIdle
    /\ DocIdle

\* process() up to its first wait: lines 26-73
Process ==
    /\ worker.pc = "start"
    /\ \E openOk, saveResult \in BOOLEAN :
          IF ~openOk \/ worker.segments = <<>>
          THEN WorkerBecomes(WorkerState(Finish(StartLoop(worker.segments), FALSE), Queue))
          ELSE WorkerBecomes(IterationStart(WorkerState(StartLoop(worker.segments), Queue),
                                            Env(dialog.quit, saveResult)))
    /\ lastOp' = "process"
    /\ UNCHANGED <<llmEnabled, llmProvider, apiKeySet, cancelled, dialog,
                   chunkerVars, docVars>>

\* translationReady or error of the translator ends loop.exec(): lines 57-73
PrimaryReturns ==
    /\ worker.pc = "primary"
    /\ worker.handling = NotHandling
    /\ \E sig \in TranslatorSignals(worker.segments[worker.i + 1].text),
          saveResult \in BOOLEAN :
          LET w1 == IF sig.type = "translationReady"
                    THEN [worker EXCEPT !.translatedText = sig.text]
                    ELSE \* lines 67-70: emit error(msg); translatedText stays empty
                         [worker EXCEPT !.failed = @ \cup {worker.i}]
          IN /\ WorkerBecomes(AfterPrimary(WorkerState(w1, Queue),
                                           Env(dialog.quit, saveResult)))
             /\ lastOp' = IF sig.type = "error" THEN "translator error"
                          ELSE "translationReady"
    /\ UNCHANGED <<llmEnabled, llmProvider, apiKeySet, cancelled, dialog,
                   chunkerVars, docVars>>

\* handleReply has turned the queue into q1 while the worker w waits in one
\* of its event loops: the lambdas of the segment hear its signals only in
\* aiLoop, which returns if one of them called quit()
AfterReply(w, q1, env) ==
    LET heard == ApplySignals(w, q1.out)
    IN IF w.pc = "refine" /\ heard.quit
       THEN AfterRefine(WorkerState(heard.w, q1), env)
       ELSE WorkerState(IF w.pc = "refine" THEN heard.w ELSE w, q1)

\* a request of llm_ ends while the worker waits in one of its event loops
WorkerReplyFinished ==
    /\ worker.pc \in {"primary", "refine"}
    /\ worker.handling = NotHandling
    /\ \E r \in network, outcome \in Outcomes, saveResult \in BOOLEAN :
          WorkerBecomes(AfterReply(worker,
                                   handleReply([Queue EXCEPT !.net = @ \ {r}], r.id, outcome),
                                   Env(dialog.quit, saveResult)))
    /\ lastOp' = "handleReply"
    /\ UNCHANGED <<llmEnabled, llmProvider, apiKeySet, cancelled, dialog,
                   chunkerVars, docVars>>

\* DocumentTranslationWorker::cancel, called by onCancel on the dialog's
\* thread: first "cancelled_ = true" ...
CancelFlag ==
    /\ worker.pc \in {"primary", "refine"}
    /\ dialog.cancel = "none"
    /\ worker' = [worker EXCEPT !.cancelled_ = TRUE]
    /\ dialog' = [dialog EXCEPT !.cancel = "flag"]
    /\ lastOp' = "cancel"
    /\ UNCHANGED <<llmEnabled, llmProvider, apiKeySet, chunks_, activeRequests_,
                   completedCount_, network, emitted, received, run, cancelled,
                   verifyInput, runStatus, chunkerVars, docVars>>

\* ... then "llm_->cancelVerification()"
CancelLLM ==
    /\ dialog.cancel = "flag"
    /\ Becomes(cancelVerification(Queue))
    /\ cancelled' = TRUE
    /\ dialog' = [dialog EXCEPT !.cancel = "done"]
    /\ lastOp' = "cancelVerification"
    /\ UNCHANGED <<llmEnabled, llmProvider, apiKeySet, worker, chunkerVars, docVars>>

\* ~DocumentTranslationDialog: workerThread_->quit() makes every event loop of
\* the thread return, now and from now on
ThreadQuit ==
    /\ worker.pc \in {"primary", "refine"}
    /\ worker.handling = NotHandling
    /\ ~dialog.quit
    /\ dialog' = [dialog EXCEPT !.quit = TRUE]
    /\ \E saveResult \in BOOLEAN :
          IF worker.pc = "primary"
          THEN WorkerBecomes(AfterPrimary(WorkerState(worker, Queue), Env(TRUE, saveResult)))
          ELSE WorkerBecomes(AfterRefine(WorkerState(worker, Queue), Env(TRUE, saveResult)))
    /\ lastOp' = "quit"
    /\ UNCHANGED <<llmEnabled, llmProvider, apiKeySet, cancelled, chunkerVars, docVars>>

\* handleReply on the worker thread, up to "index = activeRequests_.take(reply)"
\* (LLMInterface.cpp:165-170); cancel() runs on the dialog's thread and can
\* act before handleReply goes on
WorkerReplyBegins ==
    /\ worker.pc \in {"primary", "refine"}
    /\ worker.handling = NotHandling
    /\ \E r \in network, outcome \in Outcomes :
          /\ r.id \in DOMAIN activeRequests_
          /\ worker' = [worker EXCEPT !.handling =
                            [reply |-> r.id, index |-> activeRequests_[r.id],
                             outcome |-> outcome]]
          /\ activeRequests_' = MapRemove(activeRequests_, r.id)
          /\ network' = network \ {r}
    /\ lastOp' = "handleReply begins"
    /\ UNCHANGED <<llmEnabled, llmProvider, apiKeySet, chunks_, completedCount_,
                   emitted, received, run, cancelled, verifyInput, runStatus, dialog,
                   chunkerVars, docVars>>

\* what the rest of handleReply does when chunks_ no longer has the index:
\* "chunks_[index]" is an access outside the list.  The process is ended, or
\* the access goes unnoticed and lines 251-268 run on the empty list
StaleAccess(q, way) ==
    IF way = "crash" THEN q
    ELSE LET q1 == [q EXCEPT !.count = @ + 1]
             q2 == Emit(q1, "partialResultReady", <<>>, 0, 0)
             q3 == Emit(q2, "verificationProgress", <<>>, q2.count, Len(q2.chunks))
         IN IF q3.count = Len(q3.chunks)
            THEN Emit(q3, "verificationReady", <<>>, 0, 0)
            ELSE processQueue(q3)

\* the rest of handleReply (lines 172-268)
WorkerReplyCompletes ==
    /\ worker.pc \in {"primary", "refine"}
    /\ worker.handling # NotHandling
    /\ LET h == worker.handling
           w == [worker EXCEPT !.handling = NotHandling]
       IN \E saveResult \in BOOLEAN, way \in {"crash", "stale"} :
             IF h.outcome.kind = "apiError" \/ h.index < Len(chunks_)
             THEN WorkerBecomes(AfterReply(
                      w,
                      handleReply([Queue EXCEPT !.active = MapInsert(@, h.reply, h.index)],
                                  h.reply, h.outcome),
                      Env(dialog.quit, saveResult)))
             ELSE IF way = "crash"
             THEN WorkerBecomes(WorkerState([w EXCEPT !.pc = "crashed"], Queue))
             ELSE WorkerBecomes(WorkerState(w, StaleAccess(Queue, way)))
    /\ lastOp' = "handleReply"
    /\ UNCHANGED <<llmEnabled, llmProvider, apiKeySet, cancelled, dialog,
                   chunkerVars, docVars>>

NextWorker ==
    \/ Process
    \/ PrimaryReturns
    \/ WorkerReplyFinished
    \/ WorkerReplyBegins
    \/ WorkerReplyCompletes
    \/ CancelFlag
    \/ CancelLLM
    \/ ThreadQuit

SpecWorker == InitWorker /\ [][NextWorker]_vars

\* the worker under the conditions of a run that is let to proceed: the
\* translator returns control (the worker does not wait for it for ever), every
\* request ends (again and again none is outstanding), and cancel(), once it
\* has set the flag, goes on to cancelVerification.  Nothing makes the dialog
\* be destroyed.
SpecWorkerLive ==
    /\ SpecWorker
    /\ []<>(worker.pc # "primary")
    /\ []<>(network = {})
    /\ WF_vars(CancelLLM)

\* C15: while the worker waits for the primary translation of a segment no
\* refinement request is outstanding, and while it waits for the refinement of
\* a segment every outstanding request belongs to the run of that segment.
C15_SequentialPipeline ==
    /\ worker.pc = "primary" => network = {}
    /\ worker.pc = "refine" => \A r \in network : r.run = run

\* C16: a process() that observed the cancellation flag ended with
\* finished(false) without calling save(); and save() is called only with one
\* translated segment per source segment, in source order, with the same
\* identifiers and indices.
C16_NoPartialDocument ==
    worker.pc = "finished" =>
        /\ worker.observed => (worker.finished = FALSE /\ ~worker.saved)
        /\ worker.saved =>
              /\ Len(worker.translatedSegments) = Len(worker.segments)
              /\ \A k \in 1..Len(worker.segments) :
                    /\ worker.translatedSegments[k].identifier
                           = worker.segments[k].identifier
                    /\ worker.translatedSegments[k].index = worker.segments[k].index

\* C16 witness: the flag was observed after a segment had been translated; the
\* translated segment was discarded.
C16_Witness ==
    /\ worker.pc = "finished"
    /\ worker.observed
    /\ worker.translatedSegments # <<>>
    /\ ~worker.saved
    /\ worker.finished = FALSE

\* C17: once cancel() has set the flag of a waiting worker, process()
\* eventually emits finished(false, ...) and returns.
C17_CancelExits ==
    (worker.pc \in {"primary", "refine"} /\ worker.cancelled_)
        ~> (worker.pc = "finished" /\ worker.finished = FALSE)

----------------------------------------------------------------------------
(* What the PDF conversion leaves behind *)

\* C18: after splitPdf returned, for whatever reason, neither the temporary
\* conversion directory nor the intermediate word package exists.
C18_PdfCleanup ==
    (dpc # "open" /\ m_input.ext = "pdf") => tempFiles = {}

----------------------------------------------------------------------------
(* DocumentProcessor: open(), setTranslatedSegments() and save() of a word
   package or an ebook *)

\* the chapters of the ebooks that are reassembled: one paragraph; two
\* paragraphs too large for one segment; text outside a paragraph, then a
\* paragraph; an empty heading, then a paragraph; a paragraph with an
\* emphasised word
MergeChapterBodies ==
    {<<[tag |-> "p", text |-> A1]>>,
     <<[tag |-> "p", text |-> <<"a", SP, "<i>", "a", "</i>">>]>>,
     <<[tag |-> "p", text |-> A3], [tag |-> "p", text |-> A1]>>,
     <<[tag |-> "div", text |-> A1], [tag |-> "p", text |-> A1]>>,
     <<[tag |-> "h1", text |-> <<SP>>], [tag |-> "p", text |-> A1]>>}

\* the paragraphs of the word documents that are reassembled: those of
\* WordParagraphs, and one whose only run is empty
MergeWordParagraphs == WordParagraphs \cup {<< <<>> >>}

\* the entries an archive can hold under a name; an entry of any kind may
\* fail to be read
MergeEntriesNamed(name) ==
    IF IsChapterName(name)
    THEN {Entry(name, TRUE, b) : b \in MergeChapterBodies}
         \cup {Entry(name, FALSE, <<[tag |-> "p", text |-> A1]>>)}
    ELSE IF name = WordDocumentXml
    THEN {Entry(name, TRUE, b) : b \in SeqsUpTo(MergeWordParagraphs, MaxElems)}
         \cup {Entry(name, FALSE, <<<<A1>>>>)}
    ELSE {Entry(name, TRUE, <<>>), Entry(name, FALSE, <<>>)}

\* the archives whose entry names are the sequence names
RECURSIVE MergeArchivesNamed(_)
MergeArchivesNamed(names) ==
    IF names = <<>> THEN {<<>>}
    ELSE {<<e>> \o rest : e \in MergeEntriesNamed(Head(names)),
                          rest \in MergeArchivesNamed(Tail(names))}

MergeArchives(nameSet) ==
    UNION {MergeArchivesNamed(names) : names \in DistinctSeqs(nameSet, MaxEntries)}

MergeDocxArchives == MergeArchives(DocxNames)

MergeEpubArchives == MergeArchives(EpubNames)

MergeDocxFiles ==
    {File("docx", TRUE, TRUE, <<>>, a, "ok") : a \in MergeDocxArchives}
    \cup {File("docx", FALSE, FALSE, <<>>, <<>>, "ok")}

MergeEpubFiles == {File("epub", TRUE, TRUE, <<>>, a, "ok") : a \in MergeEpubArchives}

\* portable documents: those the conversion turns into one of the word
\* packages, and one the conversion fails on
MergePdfFiles ==
    {File("pdf", d.openOk, d.reopenOk, <<>>, d.archive, "ok") : d \in MergeDocxFiles}
    \cup {File("pdf", FALSE, FALSE, <<>>, <<>>, "conversion failed")}

\* how the translator and the refinement render a text: line by line; as one
\* line; with a blank line between the lines (the refinement joins its chunks
\* so); with white space around it; with a character that markup escapes; as
\* nothing
TranslationModes == {"lines", "one", "blank", "padded", "amp", "empty"}

TranslateText(t, mode) ==
    LET n == Len(Split(t, NL))
    IN IF mode = "lines" THEN Lines(<<"b">>, n)
       ELSE IF mode = "one" THEN <<"b">>
       ELSE IF mode = "blank" THEN Join([i \in 1..n |-> <<"b">>], NL) \o <<NL, NL, "b">>
       ELSE IF mode = "padded" THEN <<SP>> \o Lines(<<"b">>, n) \o <<SP>>
       ELSE IF mode = "amp" THEN Lines(<<"b", "&">>, n)
       ELSE <<>>

InitMerge ==
    /\ (m_input \in MergeDocxFiles \/ m_input \in MergeEpubFiles
           \/ m_input \in MergePdfFiles)
    /\ m_segments = <<>> /\ splitErrors = <<>>
    /\ outText = <<>> /\ saveOk = FALSE
    /\ dpc = "open"
    /\ tempFiles = {} /\ m_translatedSegments = <<>> /\ merged = NoMerge
    /\ ChunkerIdle
    /\ QueueIdle
    /\ WorkerIdle

\* the lists a caller of setTranslatedSegments can hand over for the segments
\* of open(): in the order of open(), last first, and (for an ebook, whose
\* merge pairs two lists) without the first segment
HandOvers(ext) ==
    IF ext = "epub" THEN {"asOpened", "reversed", "withoutFirst"}
    ELSE {"asOpened", "reversed"}

HandedOver(translated, order) ==
    LET n == Len(translated)
    IN IF order = "reversed" THEN [k \in 1..n |-> translated[n + 1 - k]]
       ELSE IF order = "withoutFirst" /\ n > 0 THEN Tail(translated)
       ELSE translated

\* DocumentProcessor::setTranslatedSegments with the segments of open(), each
\* with its text translated ("transSeg = seg; transSeg.text = ...").  The
\* worker hands them over in the order of open(); any other caller of the
\* function may hand them over in another order.
SetTranslatedSegments ==
    /\ dpc = "split"
    /\ m_input.ext \in {"docx", "epub", "pdf"}
    /\ \E mode \in TranslationModes, order \in HandOvers(m_input.ext) :
          LET n == Len(m_segments)
              translated == [k \in 1..n |->
                  [m_segments[k] EXCEPT !.text = TranslateText(m_segments[k].text, mode)]]
          IN m_translatedSegments' = HandedOver(translated, order)
    /\ dpc' = "translated"
    /\ UNCHANGED <<m_input, m_segments, splitErrors, outText, saveOk, tempFiles, merged,
                   chunkerVars, queueVars, workerVars>>

\* DocumentProcessor::save on a word package
SaveDocx ==
    /\ dpc = "translated"
    /\ m_input.ext = "docx"
    /\ \E outOk \in BOOLEAN, junk \in {"same", "other"} :
          merged' = mergeToDocx(m_input, m_translatedSegments, MergeEnv(outOk, junk))
    /\ saveOk' = merged'.ok
    /\ dpc' = "saved"
    /\ UNCHANGED <<m_input, m_segments, splitErrors, outText, tempFiles,
                   m_translatedSegments, chunkerVars, queueVars, workerVars>>

\* DocumentProcessor::save on an ebook
SaveEpub ==
    /\ dpc = "translated"
    /\ m_input.ext = "epub"
    /\ \E outOk \in BOOLEAN, junk \in {"same", "other"} :
          merged' = mergeToEpub(m_input, m_segments, m_translatedSegments,
                                MergeEnv(outOk, junk))
    /\ saveOk' = merged'.ok
    /\ dpc' = "saved"
    /\ UNCHANGED <<m_input, m_segments, splitErrors, outText, tempFiles,
                   m_translatedSegments, chunkerVars, queueVars, workerVars>>

\* the file at m_inputPath of a portable document as the archive reader finds
\* it: the document itself, which is no archive
PdfAsArchive(file) == [file EXCEPT !.openOk = FALSE, !.reopenOk = FALSE, !.archive = <<>>]

\* DocumentProcessor::save on a portable document: mergeToDocx with m_inputPath
SavePdf ==
    /\ dpc = "translated"
    /\ m_input.ext = "pdf"
    /\ \E outOk \in BOOLEAN, junk \in {"same", "other"} :
          merged' = mergeToDocx(PdfAsArchive(m_input), m_translatedSegments,
                                MergeEnv(outOk, junk))
    /\ saveOk' = merged'.ok
    /\ dpc' = "saved"
    /\ UNCHANGED <<m_input, m_segments, splitErrors, outText, tempFiles,
                   m_translatedSegments, chunkerVars, queueVars, workerVars>>

NextMerge == Open \/ SetTranslatedSegments \/ SaveDocx \/ SaveEpub \/ SavePdf

SpecMerge == InitMerge /\ [][NextMerge]_vars

\* whether save() rewrites the entry: the document body of a word package; in
\* an ebook, a chapter whose identifier, or whose part identifiers, are among
\* those of the translated segments
Rewritten(entry) ==
    IF m_input.ext = "docx" THEN entry.name = WordDocumentXml
    ELSE \E k \in 1..Len(m_translatedSegments) :
            /\ m_translatedSegments[k].identifier.name = entry.name
            /\ m_translatedSegments[k].identifier.prefix = ""

\* C19: the archive a successful reassembly wrote has the entries of the
\* original, in the same order, and every entry that is not rewritten has the
\* content it has in the original.
C19_FrameCondition ==
    (dpc = "saved" /\ merged.ok) =>
        /\ Len(merged.archive) = Len(m_input.archive)
        /\ \A k \in 1..Len(m_input.archive) :
              /\ merged.archive[k].name = m_input.archive[k].name
              /\ ~Rewritten(m_input.archive[k])
                    => merged.archive[k].body = m_input.archive[k].body

\* character data read back from markup: each entity is the character it
\* stands for
Unescaped(s) ==
    [i \in 1..Len(s) |->
        IF s[i] = "&amp;" THEN "&"
        ELSE IF s[i] = "&lt;" THEN "<"
        ELSE IF s[i] = "&gt;" THEN ">"
        ELSE IF s[i] = "&quot;" THEN "\""
        ELSE s[i]]

\* the text a reader sees in a paragraph of a word document
ParaText(para) == Unescaped(ConcatAll(para))

\* the texts of the translated segments, the segment of least index first
TextsByIndex == TextsOf(SortByIndex(m_translatedSegments))

\* the translated paragraphs: the concatenation, white space at its ends
\* removed, split on the line feed, the empty parts dropped
TranslatedParas ==
    SelectSeq(Split(Trimmed(Join(TextsByIndex, NL)), NL), LAMBDA t : t # <<>>)

\* the translated paragraphs of a plain split of the concatenation
TranslatedParasPlain == Split(Join(TextsByIndex, NL), NL)

\* the number of paragraphs before paragraph j that satisfy holds
Rank(paragraphs, j, holds(_)) ==
    Cardinality({i \in 1..(j - 1) : holds(paragraphs[i])})

\* the paragraphs of the output correspond to those of the original as the
\* mapping demands: among the paragraphs that satisfy holds, the k-th receives
\* translatedParas[k] when there is one; every other paragraph is as it was
MappedAs(original, output, translatedParas, holds(_)) ==
    /\ Len(output) = Len(original)
    /\ \A j \in 1..Len(original) :
          LET k == Rank(original, j, holds)
          IN IF holds(original[j]) /\ k < Len(translatedParas)
             THEN ParaText(output[j]) = translatedParas[k + 1]
             ELSE output[j] = original[j]

\* a word package was reassembled with success and its document body was read
DocxReassembled ==
    /\ dpc = "saved" /\ m_input.ext = "docx" /\ merged.ok
    /\ \E k \in 1..Len(m_input.archive) :
          m_input.archive[k].name = WordDocumentXml /\ m_input.archive[k].readOk

DocumentBody(archive) == archive[FindEntry(archive, WordDocumentXml, 1)].body

\* C20 (amended): with the translated segments sorted by index, concatenated,
\* trimmed and split on the line feed with the empty parts dropped into t_0,
\* t_1, ..., the k-th original paragraph holding a run with text receives t_k,
\* paragraphs without such a run are untouched and consume nothing, and the
\* paragraphs beyond the last translated paragraph keep their text.
C20_ParagraphMapping ==
    DocxReassembled =>
        MappedAs(DocumentBody(m_input.archive), DocumentBody(merged.archive),
                 TranslatedParas, HasText)

\* a paragraph without text is skipped and the paragraph after it receives
\* t_0, which is not the first line of the concatenation
C20_Witness ==
    /\ DocxReassembled
    /\ LET original == DocumentBody(m_input.archive)
           output == DocumentBody(merged.archive)
       IN /\ Len(original) = 2
          /\ ~HasText(original[1]) /\ HasText(original[2])
          /\ output[1] = original[1]
          /\ TranslatedParas # <<>>
          /\ TranslatedParas # TranslatedParasPlain
          /\ ParaText(output[2]) = TranslatedParas[1]
          /\ output[2] # original[2]

\* C20 as stated: the translated paragraphs are the parts of a plain split of
\* the concatenation on the line feed, and every paragraph holding a run takes
\* one.
C20_AsClaimed ==
    DocxReassembled =>
        MappedAs(DocumentBody(m_input.archive), DocumentBody(merged.archive),
                 TranslatedParasPlain, LAMBDA para : para # <<>>)

\* an ebook was reassembled with success
EpubReassembled == dpc = "saved" /\ m_input.ext = "epub" /\ merged.ok

\* the inline tags of a text, in order
TagsOf(s) == SelectSeq(s, LAMBDA c : c \in InlineTags)

\* the chapter was read at open() and its markup is retained in a translated
\* segment
MarkupRetained(entry) ==
    /\ entry.readOk
    /\ \E k \in 1..Len(m_translatedSegments) :
          /\ m_translatedSegments[k].identifier.name = entry.name
          /\ m_translatedSegments[k].originalXhtml = entry.body

\* C21: the reassembly of a chapter whose markup is retained keeps every
\* element of the markup, the inline elements inside a paragraph included.
C21_InlineTagsKept ==
    EpubReassembled =>
        \A k \in 1..Len(m_input.archive) :
            MarkupRetained(m_input.archive[k]) =>
                LET original == m_input.archive[k].body
                    output == merged.archive[k].body
                IN /\ Len(output) = Len(original)
                   /\ \A j \in 1..Len(original) :
                         /\ output[j].tag = original[j].tag
                         /\ TagsOf(output[j].text) = TagsOf(original[j].text)

\* C22: a reassembly returns true only if the original archive was opened and
\* every entry that had to be read was read without error, and a reassembly
\* that returns false has emitted an error.
C22_SuccessIsValid ==
    dpc = "saved" =>
        /\ merged.ok =>
              /\ m_input.openOk
              /\ \A k \in 1..Len(m_input.archive) :
                    m_input.archive[k].body # <<>> => m_input.archive[k].readOk
        /\ ~merged.ok => merged.errors # <<>>

\* C23: cancelVerification emits nothing and leaves no chunks, no tracked
\* requests and a completed count of 0; called with no tracked request it
\* leaves the outstanding requests as they are; and called once more in the
\* state it leaves, it changes nothing.
C23_CancelIdempotent ==
    [][lastOp' = "cancelVerification" =>
          /\ emitted' = <<>>
          /\ chunks_' = <<>> /\ activeRequests_' = <<>> /\ completedCount_' = 0
          /\ activeRequests_ = <<>> => network' = network
          /\ cancelVerification(Queue') = Queue']_vars

\* cancelVerification ran after a run was started, and running it once more
\* in the state it left changes nothing
C23_Witness ==
    /\ lastOp = "cancelVerification"
    /\ cancelled /\ run > 0
    /\ chunks_ = <<>> /\ activeRequests_ = <<>> /\ completedCount_ = 0
    /\ emitted = <<>>
    /\ cancelVerification(Queue) = Queue

----------------------------------------------------------------------------
(* The worker when a refinement run surfaces an error *)

\* the stored segments whose refinement run surfaced an error
Erred == {k \in 1..Len(worker.log) : worker.log[k].run \in worker.log[k].errors}

\* C24: a segment whose refinement run surfaced an error is stored with its
\* primary translation, and a process() that was neither cancelled nor cut
\* short by the thread goes on to the last segment and calls save().
C24_ErrorKeepsPrimary ==
    worker.pc \in {"primary", "refine", "finished"} =>
        /\ \A k \in Erred : worker.translatedSegments[k].text = worker.log[k].primary
        /\ (worker.pc = "finished" /\ Erred # {} /\ ~worker.cancelled_ /\ ~dialog.quit)
              => (worker.saved /\ Len(worker.translatedSegments) = Len(worker.segments))

----------------------------------------------------------------------------
(* save() of a portable document *)

\* C25: when save() ran for a portable document that the conversion had
\* turned into a word package, that package still existed and was the archive
\* mergeToDocx opened: when it can be opened, the merge does not fail to open
\* its original.
C25_PdfAgainstIntermediate ==
    (dpc = "saved" /\ m_input.ext = "pdf" /\ m_input.conv = "ok") =>
        /\ "docx" \in tempFiles
        /\ m_input.openOk => merged.errors # <<"Could not open original DOCX">>

----------------------------------------------------------------------------
(* The chunks of a refinement run against the texts they were cut from *)

\* lines first .. last of a text (counted from 1), a line feed after each,
\* the whole trimmed: what a chunk holds of a text for that range
RangeText(lines, first, last) ==
    LET end == IF last < Len(lines) THEN last ELSE Len(lines)
    IN Trimmed(ConcatAll([j \in 1..Max(0, end - first + 1) |->
                              lines[first + j - 1] \o <<NL>>]))

\* the chunks pair the two texts range by range: ends[k] is the last line of
\* chunk k, the ranges follow each other and end with the last line
PairsByRange(chunks, sourceLines, transLines, ends) ==
    /\ Len(ends) = Len(chunks)
    /\ \A k \in 1..Len(ends) : (IF k = 1 THEN 0 ELSE ends[k - 1]) < ends[k]
    /\ ends[Len(ends)] = Max(Len(sourceLines), Len(transLines))
    /\ \A k \in 1..Len(chunks) :
          LET first == (IF k = 1 THEN 0 ELSE ends[k - 1]) + 1
          IN /\ chunks[k].index = k - 1
             /\ chunks[k].source = RangeText(sourceLines, first, ends[k])
             /\ chunks[k].machineTranslation = RangeText(transLines, first, ends[k])

\* C26: the chunks of a run pair the same range of lines of the source and of
\* the translation, the ranges are contiguous and ascending, and together they
\* cover every line of both texts, whatever the two line counts.
C26_LineAligned ==
    chunks_ # <<>> =>
        LET sourceLines == Split(verifyInput[1], NL)
            transLines == Split(verifyInput[2], NL)
            n == Max(Len(sourceLines), Len(transLines))
        IN \E ends \in [1..Len(chunks_) -> 1..n] :
              PairsByRange(chunks_, sourceLines, transLines, ends)

\* a run of two chunks whose translation has a line more than its source
C26_Witness ==
    /\ Len(chunks_) = 2
    /\ Len(Split(verifyInput[2], NL)) > Len(Split(verifyInput[1], NL))
    /\ chunks_[2].source = <<>>
    /\ chunks_[2].machineTranslation # <<>>

----------------------------------------------------------------------------
(* The Refinement Queue when every posted request ends *)

\* a request is outstanding whose reply handleReply will act on
ReplyPending == \E r \in network : r.id \in DOMAIN activeRequests_

\* C27: a run that has emitted verificationStarted goes on to emit
\* verificationReady or an error unless cancelVerification or a new
\* verifyTranslation intervenes: until it has, a request of it is outstanding,
\* whose end makes handleReply carry the run on.  (Signals are emitted by
\* handleReply and by the dispatch it ends with only: a run with no request
\* outstanding never emits another one.)
C27_RunEnds == (runStatus = "started" /\ ~cancelled) => ReplyPending

----------------------------------------------------------------------------
(* cancel() on the dialog's thread against handleReply on the worker thread *)

\* C28: whenever handleReply is about to read or write the chunk of the index
\* it took, that index is below the number of chunks; the completed count
\* never exceeds the number of chunks; and the process is not ended by an
\* access outside the list.
C28_NoCorruption ==
    worker.pc \in {"primary", "refine", "finished", "crashed"} =>
        /\ (worker.handling # NotHandling /\ worker.handling.outcome.kind # "apiError")
              => worker.handling.index < Len(chunks_)
        /\ completedCount_ <= Len(chunks_)
        /\ worker.pc # "crashed"

----------------------------------------------------------------------------
(* The pairing of identifiers and translated texts in an ebook *)

\* the translated segment that has the identifier
OwnSegment(id) ==
    m_translatedSegments[CHOOSE i \in 1..Len(m_translatedSegments) :
                            m_translatedSegments[i].identifier = id]

OwnIdentifiers ==
    {m_translatedSegments[i].identifier : i \in 1..Len(m_translatedSegments)}

\* C29: in the ebook a successful save() wrote, every chapter that has a
\* translated segment of its identifier (or of its part identifiers) holds
\* the text of those segments, whatever the order and the length of the
\* translated list.
C29_PairedByIdentifier ==
    (dpc = "saved" /\ m_input.ext = "epub" /\ merged.ok) =>
        LET own == [id \in OwnIdentifiers |-> OwnSegment(id).text]
            ownXhtml == [id \in OwnIdentifiers |-> OwnSegment(id).originalXhtml]
        IN \A k \in 1..Len(m_input.archive) :
              IsTranslatedChapter(own, m_input.archive[k].name) =>
                  merged.archive[k].body = NewXhtml(own, ownXhtml, m_input.archive[k].name)

----------------------------------------------------------------------------
(* The worker when the translator reports an error *)

\* C30: a process() that ended with finished(true) had no segment for which
\* the translator reported an error: no document in which the text of such a
\* segment is empty or missing was saved and reported as a success.
C30_SuccessNeedsPrimary ==
    (worker.pc = "finished" /\ worker.finished = TRUE) =>
        /\ worker.failed = {}
        /\ \A k \in worker.failed :
              /\ k < Len(worker.translatedSegments)
              /\ worker.translatedSegments[k + 1].text # <<>>
====
